---- MODULE Spec2Model ----
(***************************************************************************)
(* Model of the journey personality-model pipeline: the dataset cache of   *)
(* src/src/dataset.py (_token_hash, _save_cache, _load_cache,              *)
(* PersonalityDataset.__init__) and the Core ML export of                  *)
(* src/src/export.py (export_to_coreml and its helpers).                   *)
(*                                                                         *)
(* Strings that are hashed or joined are sequences of byte codes; a file   *)
(* on disk is <<>> when absent and <<content>> when present; Python's None *)
(* is <<>>.                                                                *)
(***************************************************************************)
EXTENDS Integers, Sequences, FiniteSets, TLC

VARIABLES
  embFile,      \* cache/embeddings.pt
  tgtFile,      \* cache/targets.pt
  metaFile,     \* cache/metadata.json
  dpc,          \* position of the running dataset process
  dop,          \* what the dataset process is doing / did last
  drun,         \* backend identity and vocabulary of the running process
  selfEmb,      \* PersonalityDataset.embeddings
  selfTgt,      \* PersonalityDataset.targets
  firstLoad,    \* what the _load_cache of the running process returned
  dargs,        \* max_samples, temperature, force_rebuild of the last constructor call
  metaBefore,   \* metadata.json as it was when the running process started
  xpc,          \* position of export_to_coreml
  xerr,         \* the exception export_to_coreml raised, "" if none
  xhost,        \* the host export runs on
  xckpt,        \* parameter names of checkpoint["model_state_dict"]
  xckptTokens,  \* the vocabulary file behind checkpoint["tokens"]
  xtokens,      \* the vocabulary file behind TOKENS in the exporting process
  xsteps,       \* the steps this export call has performed
  xid,          \* number of export calls started
  outDir,       \* whether output_dir exists
  pkgs,         \* output_dir: the package at every name, <<>> where none is
  xnames,       \* the package_name and head_package_name arguments
  fullAtCall,   \* output_dir/package_name when the running export was called
  headAtCall,   \* output_dir/head_package_name when the running export was called
  outDirAtCall, \* outDir when the running export was called
  headSpec,     \* the converted head model's spec
  xret,         \* the pair export_to_coreml returned, <<>> if none
  \* the vocabulary file and what is made of it (src/src/tokens.py, export.py)
  tokFile,      \* personality-tokens.json: <<>> if absent, else << its tokens field >>
  vstage,       \* "file", "imported", "exported" or "inspected"
  loadedTokens, \* the module-level TOKENS: <<>> before and after a failed import
  tokenIndex,   \* the module-level TOKEN_INDEX, likewise
  tokErr,       \* the exception load_tokens raised, "" if none
  personalityTokens, \* the personality_tokens metadata value, <<>> if not written
  inspected,    \* the list inspect_mlpackage recovers, <<>> if not run
  \* a PersonalityModel object (src/src/model.py)
  requiresGrad, \* requires_grad of every parameter
  gradBefore,   \* requiresGrad before the last call
  mlog,         \* the methods called on the object so far, in order
  mret,         \* what the last call returned, <<>> for None
  \* a run of train() (src/src/train.py)
  tpc,          \* where the run is
  tbackend,     \* the embedding backend from_env made
  tepochs,      \* the epochs argument
  texport,      \* the export_coreml argument
  tepoch,       \* the epoch of the loop, 0 before it
  tvalloss,     \* val_metrics.avg_loss of the epoch, in hundredths
  tlog,         \* the steps taken so far, in order
  tckpts,       \* the files in output_dir/checkpoints
  tweights,     \* personality_model_weights.pt: <<>> if absent
  thistory,     \* training_history.json: the epochs recorded, <<>> if absent
  texported,    \* the weights_path export_to_coreml was called with, <<>> if not called
  \* a call of embed(texts, batch_size) (src/src/embeddings.py)
  epc,          \* "idle", "loop" or "returned"
  ebackend,     \* the identity of the backend called
  etexts,       \* the texts argument
  ebatchSize,   \* the batch_size argument
  ei,           \* the loop variable i
  ebatches,     \* the batch_texts handed to the encoder or the service so far
  eallVecs,     \* all_vecs
  eresult,      \* the tensor returned, as its list of rows
  \* a LocalEmbeddingBackend object and a call of its embed (src/src/embeddings.py)
  lpc,          \* "none", "built" or "embedded"
  lprojectorArg, \* the projector argument of the constructor
  lself,        \* self.hidden_size and self.projector
  lcall,        \* the arguments of the embed call
  lresult,      \* the rows embed returned
  \* a call of PersonalityDataset._load_texts (src/src/dataset.py)
  qpc,          \* "idle", "loop" or "returned"
  qstream,      \* the samples the dataset streams
  qmax,         \* the max_samples argument
  qi,           \* the number of samples taken from the stream
  qtexts        \* texts

cacheVars == << embFile, tgtFile, metaFile, dpc, dop, drun, selfEmb, selfTgt,
                firstLoad, dargs, metaBefore >>
exportVars == << xpc, xerr, xhost, xckpt, xckptTokens, xtokens, xsteps, xid, outDir, pkgs, xnames,
                 fullAtCall, headAtCall, outDirAtCall, headSpec, xret >>
vocabVars == << tokFile, vstage, loadedTokens, tokenIndex, tokErr, personalityTokens,
               inspected >>
modelVars == << requiresGrad, gradBefore, mlog, mret >>
trainVars == << tpc, tbackend, tepochs, texport, tepoch, tvalloss, tlog, tckpts,
                tweights, thistory, texported >>
embedVars == << epc, ebackend, etexts, ebatchSize, ei, ebatches, eallVecs, eresult >>
localVars == << lpc, lprojectorArg, lself, lcall, lresult >>
textsVars == << qpc, qstream, qmax, qi, qtexts >>
vars == << cacheVars, exportVars, vocabVars, modelVars, trainVars, embedVars, localVars, textsVars >>
\* what the actions of one part of the program leave alone
notCacheVars == << exportVars, vocabVars, modelVars, trainVars, embedVars, localVars, textsVars >>
notExportVars == << cacheVars, vocabVars, modelVars, trainVars, embedVars, localVars, textsVars >>
notVocabVars == << cacheVars, exportVars, modelVars, trainVars, embedVars, localVars, textsVars >>
notModelVars == << cacheVars, exportVars, vocabVars, trainVars, embedVars, localVars, textsVars >>
notTrainVars == << cacheVars, exportVars, vocabVars, modelVars, embedVars, localVars, textsVars >>
notEmbedVars == << cacheVars, exportVars, vocabVars, modelVars, trainVars, localVars, textsVars >>
notLocalVars == << cacheVars, exportVars, vocabVars, modelVars, trainVars, embedVars, textsVars >>
notTextsVars == << cacheVars, exportVars, vocabVars, modelVars, trainVars, embedVars, localVars >>

(***************************************************************************)
(* Program constants.                                                      *)
(***************************************************************************)
VOCAB_SIZE == 325
\* the canonical embedding dimension
TARGET_DIM == 1536
EMBEDDING_DIM == 1536

(***************************************************************************)
(* Bounds of the model.                                                    *)
(***************************************************************************)
MaxSamplesBound == 2
MaxExports == 2
MaxModelCalls == 3
MaxEpochs == 2
MaxTexts == 3
MaxBatchSize == 3
MaxStream == 3

(***************************************************************************)
(* hashlib.md5 on byte sequences.  A 32-bit word is << high 16 bits, low   *)
(* 16 bits >>, so that no intermediate value leaves the integers TLC has.  *)
(***************************************************************************)
RECURSIVE And16(_, _)
And16(a, b) ==
  IF a = 0 \/ b = 0 THEN 0
  ELSE 2 * And16(a \div 2, b \div 2) + (a % 2) * (b % 2)

WAnd(u, v) == << And16(u[1], v[1]), And16(u[2], v[2]) >>
WNot(u) == << 65535 - u[1], 65535 - u[2] >>
WOr(u, v) ==
  << u[1] + v[1] - And16(u[1], v[1]), u[2] + v[2] - And16(u[2], v[2]) >>
WXor(u, v) ==
  << u[1] + v[1] - 2 * And16(u[1], v[1]), u[2] + v[2] - 2 * And16(u[2], v[2]) >>
WAdd(u, v) ==
  LET lo == u[2] + v[2]
      hi == u[1] + v[1] + (lo \div 65536)
  IN << hi % 65536, lo % 65536 >>

Pow2(s) ==
  CASE s = 0 -> 1 [] s = 1 -> 2 [] s = 2 -> 4 [] s = 3 -> 8 [] s = 4 -> 16
    [] s = 5 -> 32 [] s = 6 -> 64 [] s = 7 -> 128 [] s = 8 -> 256
    [] s = 9 -> 512 [] s = 10 -> 1024 [] s = 11 -> 2048 [] s = 12 -> 4096
    [] s = 13 -> 8192 [] s = 14 -> 16384 [] s = 15 -> 32768 [] s = 16 -> 65536

\* rotate the 32-bit word u left by s bits, 0 < s < 32
WRotL(u, s) ==
  LET w == IF s >= 16 THEN << u[2], u[1] >> ELSE u
      r == IF s >= 16 THEN s - 16 ELSE s
  IN << ((w[1] * Pow2(r)) % 65536) + (w[2] \div Pow2(16 - r)),
        ((w[2] * Pow2(r)) % 65536) + (w[1] \div Pow2(16 - r)) >>

\* floor(2^32 * abs(sin(i))) for i = 1..64
MD5_T ==
  << <<55146, 42104>>, <<59591, 46934>>, <<9248, 28891>>, <<49597, 52974>>,
     <<62844, 4015>>, <<18311, 50730>>, <<43056, 17939>>, <<64838, 38145>>,
     <<27008, 39128>>, <<35652, 63407>>, <<65535, 23473>>, <<35164, 55230>>,
     <<27536, 4386>>, <<64920, 29075>>, <<42617, 17294>>, <<18868, 2081>>,
     <<63006, 9570>>, <<49216, 45888>>, <<9822, 23121>>, <<59830, 51114>>,
     <<54831, 4189>>, <<580, 5203>>, <<55457, 59009>>, <<59347, 64456>>,
     <<8673, 52710>>, <<49975, 2006>>, <<62677, 3463>>, <<17754, 5357>>,
     <<43491, 59653>>, <<64751, 41976>>, <<26479, 729>>, <<36138, 19594>>,
     <<65530, 14658>>, <<34673, 63105>>, <<28061, 24866>>, <<64997, 14348>>,
     <<42174, 59972>>, <<19422, 53161>>, <<63163, 19296>>, <<48831, 48240>>,
     <<10395, 32454>>, <<60065, 10234>>, <<54511, 12421>>, <<1160, 7429>>,
     <<55764, 53305>>, <<59099, 39397>>, <<8098, 31992>>, <<50348, 22117>>,
     <<62505, 8772>>, <<17194, 65431>>, <<43924, 9127>>, <<64659, 41017>>,
     <<25947, 22979>>, <<36620, 52370>>, <<65519, 62589>>, <<34180, 24017>>,
     <<28584, 32335>>, <<65068, 59104>>, <<41729, 17172>>, <<19976, 4513>>,
     <<63315, 32386>>, <<48442, 62005>>, <<10967, 53947>>, <<60294, 54161>> >>

MD5_S ==
  << 7, 12, 17, 22, 7, 12, 17, 22, 7, 12, 17, 22, 7, 12, 17, 22,
     5, 9, 14, 20, 5, 9, 14, 20, 5, 9, 14, 20, 5, 9, 14, 20,
     4, 11, 16, 23, 4, 11, 16, 23, 4, 11, 16, 23, 4, 11, 16, 23,
     6, 10, 15, 21, 6, 10, 15, 21, 6, 10, 15, 21, 6, 10, 15, 21 >>

\* 0x67452301, 0xefcdab89, 0x98badcfe, 0x10325476
MD5_IV ==
  << <<26437, 8961>>, <<61389, 43913>>, <<39098, 56574>>, <<4146, 21622>> >>

\* the round function of step i (0-based)
MD5_F(i, b, c, d) ==
  IF i < 16 THEN WOr(WAnd(b, c), WAnd(WNot(b), d))
  ELSE IF i < 32 THEN WOr(WAnd(d, b), WAnd(WNot(d), c))
  ELSE IF i < 48 THEN WXor(WXor(b, c), d)
  ELSE WXor(c, WOr(b, WNot(d)))

\* the message word step i reads
MD5_G(i) ==
  IF i < 16 THEN i
  ELSE IF i < 32 THEN (5 * i + 1) % 16
  ELSE IF i < 48 THEN (3 * i + 5) % 16
  ELSE (7 * i) % 16

\* st = <<a, b, c, d>>, m = the 16 words of the block
MD5_Step(st, m, i) ==
  LET f == WAdd(WAdd(WAdd(MD5_F(i, st[2], st[3], st[4]), st[1]), MD5_T[i + 1]),
                m[MD5_G(i) + 1])
  IN << st[4], WAdd(st[2], WRotL(f, MD5_S[i + 1])), st[2], st[3] >>

\* Len(st) is read at every step so that st is a value before the next step starts
RECURSIVE MD5_Rounds(_, _, _)
MD5_Rounds(st, m, i) ==
  IF i = 64 \/ Len(st) # 4 THEN st
  ELSE MD5_Rounds(MD5_Step(st, m, i), m, i + 1)

MD5_Block(h, m) ==
  LET r == MD5_Rounds(h, m, 0)
  IN [k \in 1..4 |-> WAdd(h[k], r[k])]

\* 0x80, zeros up to 56 mod 64, then the bit length, little-endian on 8 bytes
MD5_Pad(msg) ==
  LET n == Len(msg)
      z == (55 - n) % 64
      bits == 8 * n
  IN msg \o <<128>> \o [k \in 1..z |-> 0]
         \o << bits % 256, (bits \div 256) % 256, (bits \div 65536) % 256,
               0, 0, 0, 0, 0 >>

\* the 16 little-endian words of block blk (0-based) of the padded message p
MD5_Words(p, blk) ==
  [k \in 1..16 |->
     LET o == 64 * blk + 4 * (k - 1)
     IN << p[o + 3] + 256 * p[o + 4], p[o + 1] + 256 * p[o + 2] >>]

RECURSIVE MD5_Blocks(_, _, _, _)
MD5_Blocks(h, p, blk, n) ==
  IF blk = n \/ Len(h) # 4 THEN h
  ELSE MD5_Blocks(MD5_Block(h, MD5_Words(p, blk)), p, blk + 1, n)

\* the 16 bytes of the digest
MD5_Digest(msg) ==
  LET p == MD5_Pad(msg)
      h == MD5_Blocks(MD5_IV, p, 0, Len(p) \div 64)
  IN [k \in 1..16 |->
        LET w == h[(k - 1) \div 4 + 1]
            j == (k - 1) % 4
        IN IF j = 0 THEN w[2] % 256
           ELSE IF j = 1 THEN w[2] \div 256
           ELSE IF j = 2 THEN w[1] % 256
           ELSE w[1] \div 256]

\* hexdigest(): 32 hexadecimal digits, each as its value 0..15
MD5_HexDigest(msg) ==
  LET d == MD5_Digest(msg)
  IN [k \in 1..32 |->
        IF k % 2 = 1 THEN d[(k + 1) \div 2] \div 16 ELSE d[k \div 2] % 16]

(***************************************************************************)
(* json.dumps of a list of strings (default separators, ensure_ascii).     *)
(* The model's tokens are printable ASCII, where only the double quote and *)
(* the backslash are escaped.                                              *)
(***************************************************************************)
RECURSIVE ConcatRange(_, _, _)
ConcatRange(ss, lo, hi) ==
  IF lo > hi THEN <<>>
  ELSE IF lo = hi THEN ss[lo]
  ELSE LET mid == (lo + hi) \div 2
       IN ConcatRange(ss, lo, mid) \o ConcatRange(ss, mid + 1, hi)

JsonEscape(ch) ==
  IF ch = 34 THEN <<92, 34>> ELSE IF ch = 92 THEN <<92, 92>> ELSE <<ch>>

JsonString(s) ==
  <<34>> \o ConcatRange([i \in 1..Len(s) |-> JsonEscape(s[i])], 1, Len(s)) \o <<34>>

JsonDumps(tokens) ==
  <<91>>
    \o ConcatRange([i \in 1..Len(tokens) |->
                      IF i = 1 THEN JsonString(tokens[i])
                      ELSE <<44, 32>> \o JsonString(tokens[i])], 1, Len(tokens))
    \o <<93>>

(***************************************************************************)
(* The vocabulary (src/src/tokens.py).  A vocabulary file is named by a    *)
(* short name; TOKENS(v) is the list a process that imported the file v    *)
(* holds.  Every file below has VOCAB_SIZE entries, as load_tokens demands.*)
(*   "u"        the reference vocabulary                                   *)
(*   "z"        "u" with the last character of its last token changed      *)
(*   "a"        "u" with the same character changed to another letter      *)
(*   "s"        "u" reordered: its first two tokens exchanged               *)
(***************************************************************************)
Vocabularies == {"u", "z", "a"}

\* "aa", "ba", ..., one two-letter token per position
BaseTokens ==
  [i \in 1..(VOCAB_SIZE - 1) |-> << 97 + ((i - 1) % 26), 97 + ((i - 1) \div 26) >>]

\* "zxjvhb" followed by the character ch
LastToken(ch) == << 122, 120, 106, 118, 104, 98, ch >>

\* the first two entries of a list exchanged
SwapFirstTwo(tokens) ==
  [i \in 1..Len(tokens) |-> IF i = 1 THEN tokens[2] ELSE IF i = 2 THEN tokens[1] ELSE tokens[i]]

TOKENS(v) ==
  CASE v = "u" -> BaseTokens \o << LastToken(117) >>
    [] v = "z" -> BaseTokens \o << LastToken(122) >>
    [] v = "a" -> BaseTokens \o << LastToken(97) >>
    [] v = "s" -> SwapFirstTwo(BaseTokens \o << LastToken(117) >>)

\* hashlib.md5(json.dumps(TOKENS, sort_keys=False).encode()).hexdigest()[:8]
TokenHash(tokens) == SubSeq(MD5_HexDigest(JsonDumps(tokens)), 1, 8)

\* _token_hash() in a process that imported vocabulary v; the table is
\* computed once
TokenHashTable == [v \in Vocabularies |-> TokenHash(TOKENS(v))]
CurrentTokenHash(v) == TokenHashTable[v]

(***************************************************************************)
(* The dataset build (src/src/dataset.py).  A sample of the stream is the  *)
(* text extract_text finds in it, 0 when it finds none; an embedding row   *)
(* is << backend identity, text >>; a target row is the embedding row with *)
(* the vocabulary and the temperature it was computed under.               *)
(***************************************************************************)
None == <<>>
Backends == {"text-embedding-3-small", "sentence-transformers/all-MiniLM-L6-v2"}
\* the softmax temperature in hundredths: 0.07
TARGET_TEMPERATURE == 7
\* the sample stream of DATASET_NAME: texts 1, 2, 3 and one sample without text
Streams == { <<1, 0, 2, 3>> }

ExtractText(sample) == sample

RECURSIVE CollectTexts(_, _, _, _)
CollectTexts(stream, i, texts, max_samples) ==
  IF i > Len(stream) THEN texts
  ELSE LET text == ExtractText(stream[i])
           texts2 == IF text # 0 THEN Append(texts, text) ELSE texts
       IN IF Len(texts2) >= max_samples THEN texts2
          ELSE CollectTexts(stream, i + 1, texts2, max_samples)

LoadTexts(stream, max_samples) == CollectTexts(stream, 1, <<>>, max_samples)

Embed(backend, texts) == [i \in 1..Len(texts) |-> << backend, texts[i] >>]

ComputeSoftTargets(embeddings, v, temperature) ==
  [i \in 1..Len(embeddings) |-> << embeddings[i], v, temperature >>]

\* x[:n] for n >= 0
Prefix(x, n) == SubSeq(x, 1, IF n < Len(x) THEN n ELSE Len(x))

\* the record _save_cache dumps into metadata.json
CacheMeta(embeddings, model_name, v) ==
  [model_name |-> model_name,
   token_hash |-> CurrentTokenHash(v),
   n_samples |-> Len(embeddings),
   vocab_size |-> VOCAB_SIZE]

\* _load_cache without the comparison of line 210
LoadCache_NoHashCheck(meta, emb, tgt, model_name, v) ==
  IF meta = <<>> THEN None
  ELSE IF meta[1].model_name # model_name THEN None
  ELSE IF emb = <<>> \/ tgt = <<>> THEN None
  ELSE << emb[1], tgt[1] >>

\* _load_cache without the comparison of line 207
LoadCache_NoModelCheck(meta, emb, tgt, model_name, v) ==
  IF meta = <<>> THEN None
  ELSE IF meta[1].token_hash # CurrentTokenHash(v) THEN None
  ELSE IF emb = <<>> \/ tgt = <<>> THEN None
  ELSE << emb[1], tgt[1] >>

\* _load_cache(cache_dir, model_name) on the cache files meta, emb, tgt in a
\* process that imported vocabulary v
LoadCache(meta, emb, tgt, model_name, v) ==
  IF meta = <<>> THEN None
  ELSE IF meta[1].model_name # model_name THEN None
  ELSE IF meta[1].token_hash # CurrentTokenHash(v) THEN None
  ELSE IF emb = <<>> \/ tgt = <<>> THEN None
  ELSE << emb[1], tgt[1] >>

\* _load_cache on the cache directory as it is now
Load(model_name, v) == LoadCache(metaFile, embFile, tgtFile, model_name, v)

\* parameter names of PersonalityModel().state_dict(), one name per part
\* of the model: input projection, encoder stack, head weight, head bias
ModelKeys ==
  {"input_projection.weight", "encoder_layers.0.norm1.weight",
   "projection.weight", "output_bias"}

COREML_PACKAGE_NAME == "PersonalityModelStock.mlpackage"
COREML_HEAD_PACKAGE_NAME == "PersonalityHeadUpdatable.mlpackage"

\* the names a caller gives the packages: the two defaults
PackageNames == {COREML_PACKAGE_NAME, COREML_HEAD_PACKAGE_NAME}

\* no cache, no artifacts, no process running
Init ==
  /\ embFile = <<>> /\ tgtFile = <<>> /\ metaFile = <<>>
  /\ dpc = "idle" /\ dop = "none"
  /\ drun = [model_name |-> "", vocab |-> "u"]
  /\ selfEmb = <<>> /\ selfTgt = <<>>
  /\ firstLoad = None /\ metaBefore = <<>>
  /\ dargs = [max_samples |-> 0, temperature |-> TARGET_TEMPERATURE, force_rebuild |-> FALSE]
  /\ xpc = "idle" /\ xerr = "" /\ xhost = [system |-> "Darwin", native |-> TRUE]
  /\ xckpt = {} /\ xckptTokens = "u" /\ xtokens = "u" /\ xsteps = {} /\ xid = 0
  /\ outDir = FALSE /\ pkgs = [n \in PackageNames |-> <<>>]
  /\ xnames = [package_name |-> COREML_PACKAGE_NAME,
               head_package_name |-> COREML_HEAD_PACKAGE_NAME]
  /\ fullAtCall = <<>> /\ headAtCall = <<>> /\ outDirAtCall = FALSE
  /\ headSpec = <<>> /\ xret = <<>>
  /\ tokFile = <<>> /\ vstage = "file" /\ loadedTokens = <<>> /\ tokErr = ""
  /\ tokenIndex = <<>>
  /\ personalityTokens = <<>> /\ inspected = <<>>
  /\ requiresGrad = [k \in ModelKeys |-> TRUE] /\ gradBefore = [k \in ModelKeys |-> TRUE]
  /\ mlog = <<>> /\ mret = <<>>
  /\ tpc = "idle" /\ tbackend = [kind |-> "openai", hidden_size |-> TARGET_DIM, projector |-> <<>>]
  /\ tepochs = 0 /\ texport = FALSE /\ tepoch = 0 /\ tvalloss = 0 /\ tlog = <<>>
  /\ tckpts = {} /\ tweights = <<>> /\ thistory = <<>> /\ texported = <<>>
  /\ epc = "idle" /\ ebackend = "" /\ etexts = <<>> /\ ebatchSize = 1 /\ ei = 0
  /\ ebatches = <<>> /\ eallVecs = <<>> /\ eresult = <<>>
  /\ lpc = "none" /\ lprojectorArg = <<>>
  /\ lself = [hidden_size |-> TARGET_DIM, projector |-> <<>>]
  /\ lcall = [texts |-> <<>>, batch_size |-> 1, normalize |-> TRUE] /\ lresult = <<>>
  /\ qpc = "idle" /\ qstream = <<>> /\ qmax = 0 /\ qi = 0 /\ qtexts = <<>>

\* PersonalityDataset.__init__ taking a cache with fewer samples than
\* max_samples for a miss
DatasetInit_RebuildWhenShort(model_name, v, max_samples, temperature, force_rebuild, stream) ==
  LET loaded == Load(model_name, v)
      cached == IF force_rebuild THEN None
                ELSE IF loaded # None /\ Len(loaded[1]) < max_samples THEN None
                ELSE loaded
      raw_texts == LoadTexts(stream, max_samples)
      embeddings == Embed(model_name, raw_texts)
  IN /\ dpc = "idle"
     /\ drun' = [model_name |-> model_name, vocab |-> v]
     /\ dargs' = [max_samples |-> max_samples, temperature |-> temperature,
                  force_rebuild |-> force_rebuild]
     /\ firstLoad' = cached /\ metaBefore' = metaFile
     /\ UNCHANGED << embFile, tgtFile, metaFile >>
     /\ IF cached # None
        THEN /\ selfEmb' = IF Len(cached[1]) > max_samples
                           THEN Prefix(cached[1], max_samples) ELSE cached[1]
             /\ selfTgt' = IF Len(cached[1]) > max_samples
                           THEN Prefix(cached[2], max_samples) ELSE cached[2]
             /\ dpc' = "idle" /\ dop' = "hit"
        ELSE IF raw_texts = <<>>
        THEN \* embed() ends in torch.cat of an empty list, which raises
             /\ selfEmb' = <<>> /\ selfTgt' = <<>>
             /\ dpc' = "idle" /\ dop' = "raised"
        ELSE /\ selfEmb' = embeddings
             /\ selfTgt' = ComputeSoftTargets(embeddings, v, temperature)
             /\ dpc' = "save_embeddings" /\ dop' = "rebuild"
     /\ UNCHANGED notCacheVars

\* PersonalityDataset.__init__ up to the call of _save_cache
DatasetInit(model_name, v, max_samples, temperature, force_rebuild, stream) ==
  LET cached == IF force_rebuild THEN None ELSE Load(model_name, v)
      raw_texts == LoadTexts(stream, max_samples)
      embeddings == Embed(model_name, raw_texts)
  IN /\ dpc = "idle"
     /\ drun' = [model_name |-> model_name, vocab |-> v]
     /\ dargs' = [max_samples |-> max_samples, temperature |-> temperature,
                  force_rebuild |-> force_rebuild]
     /\ firstLoad' = cached /\ metaBefore' = metaFile
     /\ UNCHANGED << embFile, tgtFile, metaFile >>
     /\ IF cached # None
        THEN /\ selfEmb' = IF Len(cached[1]) > max_samples
                           THEN Prefix(cached[1], max_samples) ELSE cached[1]
             /\ selfTgt' = IF Len(cached[1]) > max_samples
                           THEN Prefix(cached[2], max_samples) ELSE cached[2]
             /\ dpc' = "idle" /\ dop' = "hit"
        ELSE IF raw_texts = <<>>
        THEN \* embed() ends in torch.cat of an empty list, which raises
             /\ selfEmb' = <<>> /\ selfTgt' = <<>>
             /\ dpc' = "idle" /\ dop' = "raised"
        ELSE /\ selfEmb' = embeddings
             /\ selfTgt' = ComputeSoftTargets(embeddings, v, temperature)
             /\ dpc' = "save_embeddings" /\ dop' = "rebuild"
     /\ UNCHANGED notCacheVars

\* load, then save what was loaded: the first two steps of the spec's
\* load/save/load property
LoadThenSave(model_name, v) ==
  LET cached == Load(model_name, v)
  IN /\ dpc = "idle"
     /\ cached # None
     /\ drun' = [model_name |-> model_name, vocab |-> v]
     /\ firstLoad' = cached /\ metaBefore' = metaFile
     /\ selfEmb' = cached[1] /\ selfTgt' = cached[2]
     /\ dpc' = "save_embeddings" /\ dop' = "resave"
     /\ UNCHANGED << embFile, tgtFile, metaFile, dargs >>
     /\ UNCHANGED notCacheVars

\* _save_cache: torch.save(embeddings, cache_dir / "embeddings.pt")
SaveEmbeddings ==
  /\ dpc = "save_embeddings"
  /\ embFile' = << selfEmb >>
  /\ dpc' = "save_targets"
  /\ UNCHANGED << tgtFile, metaFile, dop, drun, selfEmb, selfTgt, firstLoad, dargs, metaBefore >>
  /\ UNCHANGED notCacheVars

\* _save_cache: torch.save(targets, cache_dir / "targets.pt")
SaveTargets ==
  /\ dpc = "save_targets"
  /\ tgtFile' = << selfTgt >>
  /\ dpc' = "save_metadata"
  /\ UNCHANGED << embFile, metaFile, dop, drun, selfEmb, selfTgt, firstLoad, dargs, metaBefore >>
  /\ UNCHANGED notCacheVars

\* _save_cache: json.dump(meta, fh)
SaveMetadata ==
  /\ dpc = "save_metadata"
  /\ metaFile' = << CacheMeta(selfEmb, drun.model_name, drun.vocab) >>
  /\ dpc' = "idle"
  /\ dop' = IF dop = "resave" THEN "resaved" ELSE "rebuilt"
  /\ UNCHANGED << embFile, tgtFile, drun, selfEmb, selfTgt, firstLoad, dargs, metaBefore >>
  /\ UNCHANGED notCacheVars

\* the rebuilding process dies in _save_cache between two of its writes
Crash ==
  /\ dpc \in {"save_targets", "save_metadata"}
  /\ dop = "rebuild"
  /\ dpc' = "idle" /\ dop' = "crashed"
  /\ selfEmb' = <<>> /\ selfTgt' = <<>>
  /\ UNCHANGED << embFile, tgtFile, metaFile, drun, firstLoad, dargs, metaBefore >>
  /\ UNCHANGED notCacheVars

(***************************************************************************)
(* The Core ML export (src/src/export.py).                                 *)
(***************************************************************************)
Hosts == [system : {"Darwin", "Linux"}, native : BOOLEAN]

\* _validate_coreml_environment without the import test of lines 321-328
ValidateCoremlEnvironment_PlatformOnly(host) ==
  IF host.system # "Darwin" THEN "RuntimeError"
  ELSE ""

\* _validate_coreml_environment: the exception it raises, "" when it returns
ValidateCoremlEnvironment(host) ==
  IF host.system # "Darwin" THEN "RuntimeError"
  ELSE IF ~host.native THEN "RuntimeError"
  ELSE ""

\* the checkpoints export is given: the current architecture, one without
\* the separate bias, one with an extra parameter, one with both differences
Checkpoints ==
  { ModelKeys,
    ModelKeys \ {"output_bias"},
    ModelKeys \cup {"projection.bias"},
    (ModelKeys \ {"output_bias"}) \cup {"projection.bias"} }

\* load_state_dict(..., strict=False).missing_keys / .unexpected_keys
MissingKeys(ckpt) == ModelKeys \ ckpt
UnexpectedKeys(ckpt) == ckpt \ ModelKeys

\* the test of line 128 without its unexpected_keys half
CheckpointMatches_MissingOnly(ckpt) == MissingKeys(ckpt) = {}

\* whether export_to_coreml accepts the checkpoint (line 128)
CheckpointMatches(ckpt) == MissingKeys(ckpt) = {} /\ UnexpectedKeys(ckpt) = {}

\* a layer of the converted neural-network spec
InnerProduct(outputChannels, hasBias) ==
  [kind |-> "innerProduct", outputChannels |-> outputChannels, hasBias |-> hasBias,
   isUpdatable |-> FALSE, weightsUpdatable |-> FALSE, biasUpdatable |-> FALSE]
OtherLayer(kind) ==
  [kind |-> kind, outputChannels |-> 0, hasBias |-> FALSE,
   isUpdatable |-> FALSE, weightsUpdatable |-> FALSE, biasUpdatable |-> FALSE]

\* what ct.convert can make of _ProjectionHead (Linear without bias, plus a
\* separately held bias): the bias folded into the innerProduct layer, the
\* bias kept as a layer of its own, or the product lowered to another layer
HeadGraphs ==
  { << InnerProduct(VOCAB_SIZE, TRUE) >>,
    << InnerProduct(VOCAB_SIZE, FALSE), OtherLayer("bias") >>,
    << OtherLayer("batchedMatmul"), OtherLayer("bias") >> }

\* the first innerProduct layer with VOCAB_SIZE output channels, 0 if none
RECURSIVE FindFrom(_, _)
FindFrom(layers, i) ==
  IF i > Len(layers) THEN 0
  ELSE IF layers[i].kind = "innerProduct" /\ layers[i].outputChannels = VOCAB_SIZE THEN i
  ELSE FindFrom(layers, i + 1)
FindHeadLayer(layers) == FindFrom(layers, 1)

\* the layer after lines 263-266
MarkUpdatable(layer) ==
  [layer EXCEPT !.isUpdatable = TRUE,
                !.weightsUpdatable = TRUE,
                !.biasUpdatable = IF layer.hasBias THEN TRUE ELSE @]

ConvertedSpec(layers) ==
  [layers |-> layers, isUpdatable |-> FALSE, trainingInput |-> <<>>,
   lossLayers |-> <<>>, optimizer |-> ""]

\* the spec after _configure_updatable_head_spec returned
ConfiguredSpec(spec) ==
  LET h == FindHeadLayer(spec.layers)
  IN [spec EXCEPT !.layers = [spec.layers EXCEPT ![h] = MarkUpdatable(@)],
                  !.isUpdatable = TRUE,
                  !.trainingInput = << "latent", "label" >>,
                  !.lossLayers = << "mse_loss" >>,
                  !.optimizer = "adam"]

Comma == <<44>>

\* ",".join(tokens)
Join(tokens) ==
  ConcatRange([i \in 1..Len(tokens) |->
                 IF i = 1 THEN tokens[i] ELSE Comma \o tokens[i]], 1, Len(tokens))

\* the vocabulary files an exporting process and a checkpoint can come from
ExportVocabularies == {"u", "s"}

\* ",".join(TOKENS) in a process that imported vocabulary v; the table is
\* computed once
JoinedTokens == [v \in ExportVocabularies |-> Join(TOKENS(v))]

\* a .mlpackage is a directory: these are its entries, and a package is
\* complete when it has them all
PackageEntries == {"Manifest.json", "Data"}

\* the packages mlmodel.save writes: which export wrote it, its entries, its
\* spec, the keys of its user_defined_metadata and the personality_tokens
\* value among them
FullPackage(id) ==
  [kind |-> "full",
   export |-> id,
   entries |-> PackageEntries,
   spec |-> [layers |-> <<>>, isUpdatable |-> FALSE, trainingInput |-> <<>>,
             lossLayers |-> <<>>, optimizer |-> ""],
   metadata |-> {"personality_tokens", "vocab_size", "embedding_dim", "latent_dim"},
   personality_tokens |-> JoinedTokens[xtokens]]
HeadPackage(id, spec) ==
  [kind |-> "head",
   export |-> id,
   entries |-> PackageEntries,
   spec |-> spec,
   metadata |-> {"personality_tokens", "vocab_size", "latent_dim"},
   personality_tokens |-> JoinedTokens[xtokens]]

\* what is at output_dir / package_name and at output_dir / head_package_name
fullPkg == pkgs[xnames.package_name]
headPkg == pkgs[xnames.head_package_name]

\* export_to_coreml(weights_path, output_dir, package_name, head_package_name)
\* is called on a host with a checkpoint, in a process that imported the
\* vocabulary file tokens; the checkpoint was saved under ckpt_tokens
ExportCall(host, ckpt, ckpt_tokens, tokens, package_name, head_package_name) ==
  /\ xpc = "idle" /\ xid < MaxExports
  /\ xpc' = "validate" /\ xid' = xid + 1
  /\ xhost' = host /\ xckpt' = ckpt /\ xckptTokens' = ckpt_tokens /\ xtokens' = tokens
  /\ xnames' = [package_name |-> package_name, head_package_name |-> head_package_name]
  /\ xerr' = "" /\ xsteps' = {} /\ xret' = <<>> /\ headSpec' = <<>>
  /\ fullAtCall' = pkgs[package_name] /\ headAtCall' = pkgs[head_package_name]
  /\ outDirAtCall' = outDir
  /\ UNCHANGED << outDir, pkgs >>
  /\ UNCHANGED notExportVars

\* line 116
ValidateStep ==
  /\ xpc = "validate"
  /\ xerr' = ValidateCoremlEnvironment(xhost)
  /\ xpc' = IF xerr' # "" THEN "raised" ELSE "mkdir"
  /\ UNCHANGED << xhost, xckpt, xckptTokens, xtokens, xsteps, xid, outDir, pkgs, xnames,
                  fullAtCall, headAtCall, outDirAtCall, headSpec, xret >>
  /\ UNCHANGED notExportVars

\* line 120
MakeOutputDir ==
  /\ xpc = "mkdir"
  /\ outDir' = TRUE
  /\ xsteps' = xsteps \cup {"mkdir"}
  /\ xpc' = "load_weights"
  /\ UNCHANGED << xerr, xhost, xckpt, xckptTokens, xtokens, xid, pkgs, xnames,
                  fullAtCall, headAtCall, outDirAtCall, headSpec, xret >>
  /\ UNCHANGED notExportVars

\* lines 125-132 with a comparison of checkpoint["tokens"] with TOKENS
LoadWeights_ComparesTokens ==
  /\ xpc = "load_weights"
  /\ xsteps' = xsteps \cup {"load_weights"}
  /\ IF CheckpointMatches(xckpt) /\ xckptTokens = xtokens
     THEN xpc' = "freeze" /\ xerr' = ""
     ELSE xpc' = "raised" /\ xerr' = "RuntimeError"
  /\ UNCHANGED << xhost, xckpt, xckptTokens, xtokens, xid, outDir, pkgs, xnames,
                  fullAtCall, headAtCall, outDirAtCall, headSpec, xret >>
  /\ UNCHANGED notExportVars

\* lines 125-132
LoadWeights ==
  /\ xpc = "load_weights"
  /\ xsteps' = xsteps \cup {"load_weights"}
  /\ IF CheckpointMatches(xckpt)
     THEN xpc' = "freeze" /\ xerr' = ""
     ELSE xpc' = "raised" /\ xerr' = "RuntimeError"
  /\ UNCHANGED << xhost, xckpt, xckptTokens, xtokens, xid, outDir, pkgs, xnames,
                  fullAtCall, headAtCall, outDirAtCall, headSpec, xret >>
  /\ UNCHANGED notExportVars

\* lines 133-134
FreezeAndEval ==
  /\ xpc = "freeze"
  /\ xsteps' = xsteps \cup {"freeze_backbone", "eval"}
  /\ xpc' = "full_convert"
  /\ UNCHANGED << xerr, xhost, xckpt, xckptTokens, xtokens, xid, outDir, pkgs, xnames,
                  fullAtCall, headAtCall, outDirAtCall, headSpec, xret >>
  /\ UNCHANGED notExportVars

\* _export_full_model, lines 156-183: trace, convert (which may fail), metadata
FullConvert(ok) ==
  /\ xpc = "full_convert"
  /\ xsteps' = xsteps \cup {"full_trace", "full_convert"}
  /\ IF ok THEN xpc' = "full_remove" /\ xerr' = ""
     ELSE xpc' = "raised" /\ xerr' = "ConversionError"
  /\ UNCHANGED << xhost, xckpt, xckptTokens, xtokens, xid, outDir, pkgs, xnames,
                  fullAtCall, headAtCall, outDirAtCall, headSpec, xret >>
  /\ UNCHANGED notExportVars

\* lines 185-186: shutil.rmtree unlinks the entries of the package one by one
FullRemoveEntry(e) ==
  /\ xpc = "full_remove"
  /\ fullPkg # <<>> /\ e \in fullPkg[1].entries
  /\ pkgs' = [pkgs EXCEPT ![xnames.package_name] = << [fullPkg[1] EXCEPT !.entries = @ \ {e}] >>]
  /\ UNCHANGED << xpc, xerr, xhost, xckpt, xckptTokens, xtokens, xsteps, xid, outDir, xnames,
                  fullAtCall, headAtCall, outDirAtCall, headSpec, xret >>
  /\ UNCHANGED notExportVars

\* lines 185-186: the path does not exist, or rmtree removes the emptied
\* directory
FullRemove ==
  /\ xpc = "full_remove"
  /\ fullPkg # <<>> => fullPkg[1].entries = {}
  /\ pkgs' = [pkgs EXCEPT ![xnames.package_name] = <<>>]
  /\ xpc' = "full_save"
  /\ UNCHANGED << xerr, xhost, xckpt, xckptTokens, xtokens, xsteps, xid, outDir, xnames,
                  fullAtCall, headAtCall, outDirAtCall, headSpec, xret >>
  /\ UNCHANGED notExportVars

\* line 187: mlmodel.save creates the package directory and copies the
\* entries into it one by one
FullSaveEntry(e) ==
  /\ xpc = "full_save"
  /\ fullPkg = <<>>
  /\ pkgs' = [pkgs EXCEPT ![xnames.package_name] = << [FullPackage(xid) EXCEPT !.entries = {e}] >>]
  /\ UNCHANGED << xpc, xerr, xhost, xckpt, xckptTokens, xtokens, xsteps, xid, outDir, xnames,
                  fullAtCall, headAtCall, outDirAtCall, headSpec, xret >>
  /\ UNCHANGED notExportVars

\* line 187: the last entry is copied and save returns
FullSave ==
  /\ xpc = "full_save"
  /\ fullPkg # <<>>
  /\ pkgs' = [pkgs EXCEPT ![xnames.package_name] = << FullPackage(xid) >>]
  /\ xsteps' = xsteps \cup {"full_save"}
  /\ xpc' = "head_convert"
  /\ UNCHANGED << xerr, xhost, xckpt, xckptTokens, xtokens, xid, outDir, xnames,
                  fullAtCall, headAtCall, outDirAtCall, headSpec, xret >>
  /\ UNCHANGED notExportVars

\* _export_head_model, lines 207-224: trace, convert (which may fail), get_spec
HeadConvert(ok, layers) ==
  /\ xpc = "head_convert"
  /\ xsteps' = xsteps \cup {"head_trace", "head_convert"}
  /\ IF ok THEN xpc' = "head_configure" /\ xerr' = "" /\ headSpec' = << ConvertedSpec(layers) >>
     ELSE xpc' = "raised" /\ xerr' = "ConversionError" /\ headSpec' = <<>>
  /\ UNCHANGED << xhost, xckpt, xckptTokens, xtokens, xid, outDir, pkgs, xnames,
                  fullAtCall, headAtCall, outDirAtCall, xret >>
  /\ UNCHANGED notExportVars

\* _configure_updatable_head_spec without the raise of lines 260-261: a
\* graph without head layer is configured for training with no layer marked
HeadConfigure_WarnAndContinue ==
  /\ xpc = "head_configure"
  /\ xsteps' = xsteps \cup {"head_configure"}
  /\ xpc' = "head_remove" /\ xerr' = ""
  /\ headSpec' = IF FindHeadLayer(headSpec[1].layers) = 0
                 THEN << [headSpec[1] EXCEPT !.isUpdatable = TRUE] >>
                 ELSE << ConfiguredSpec(headSpec[1]) >>
  /\ UNCHANGED << xhost, xckpt, xckptTokens, xtokens, xid, outDir, pkgs, xnames,
                  fullAtCall, headAtCall, outDirAtCall, xret >>
  /\ UNCHANGED notExportVars

\* _configure_updatable_head_spec, called at line 225
HeadConfigure ==
  /\ xpc = "head_configure"
  /\ xsteps' = xsteps \cup {"head_configure"}
  /\ IF FindHeadLayer(headSpec[1].layers) = 0
     THEN xpc' = "raised" /\ xerr' = "RuntimeError" /\ headSpec' = headSpec
     ELSE xpc' = "head_remove" /\ xerr' = "" /\ headSpec' = << ConfiguredSpec(headSpec[1]) >>
  /\ UNCHANGED << xhost, xckpt, xckptTokens, xtokens, xid, outDir, pkgs, xnames,
                  fullAtCall, headAtCall, outDirAtCall, xret >>
  /\ UNCHANGED notExportVars

\* lines 239-240: shutil.rmtree unlinks the entries of the package one by one
HeadRemoveEntry(e) ==
  /\ xpc = "head_remove"
  /\ headPkg # <<>> /\ e \in headPkg[1].entries
  /\ pkgs' = [pkgs EXCEPT ![xnames.head_package_name] = << [headPkg[1] EXCEPT !.entries = @ \ {e}] >>]
  /\ UNCHANGED << xpc, xerr, xhost, xckpt, xckptTokens, xtokens, xsteps, xid, outDir, xnames,
                  fullAtCall, headAtCall, outDirAtCall, headSpec, xret >>
  /\ UNCHANGED notExportVars

\* lines 239-240: the path does not exist, or rmtree removes the emptied
\* directory
HeadRemove ==
  /\ xpc = "head_remove"
  /\ headPkg # <<>> => headPkg[1].entries = {}
  /\ pkgs' = [pkgs EXCEPT ![xnames.head_package_name] = <<>>]
  /\ xpc' = "head_save"
  /\ UNCHANGED << xerr, xhost, xckpt, xckptTokens, xtokens, xsteps, xid, outDir, xnames,
                  fullAtCall, headAtCall, outDirAtCall, headSpec, xret >>
  /\ UNCHANGED notExportVars

\* line 241: mlmodel.save creates the package directory and copies the
\* entries into it one by one
HeadSaveEntry(e) ==
  /\ xpc = "head_save"
  /\ headPkg = <<>>
  /\ pkgs' = [pkgs EXCEPT ![xnames.head_package_name] = << [HeadPackage(xid, headSpec[1]) EXCEPT !.entries = {e}] >>]
  /\ UNCHANGED << xpc, xerr, xhost, xckpt, xckptTokens, xtokens, xsteps, xid, outDir, xnames,
                  fullAtCall, headAtCall, outDirAtCall, headSpec, xret >>
  /\ UNCHANGED notExportVars

\* lines 241-243 and 143: the last entry is copied, save returns and so does
\* export_to_coreml
HeadSave ==
  /\ xpc = "head_save"
  /\ headPkg # <<>>
  /\ pkgs' = [pkgs EXCEPT ![xnames.head_package_name] = << HeadPackage(xid, headSpec[1]) >>]
  /\ xsteps' = xsteps \cup {"head_save"}
  /\ xpc' = "returned"
  /\ xret' = << xnames.package_name, xnames.head_package_name >>
  /\ UNCHANGED << xerr, xhost, xckpt, xckptTokens, xtokens, xid, outDir, xnames,
                  fullAtCall, headAtCall, outDirAtCall, headSpec >>
  /\ UNCHANGED notExportVars

\* the exporting process dies while it replaces a package (rmtree or save
\* under way)
ExportCrash ==
  /\ xpc \in {"full_remove", "full_save", "head_remove", "head_save"}
  /\ xpc' = "idle" /\ xerr' = "killed"
  /\ UNCHANGED << xhost, xckpt, xckptTokens, xtokens, xsteps, xid, outDir, pkgs, xnames,
                  fullAtCall, headAtCall, outDirAtCall, headSpec, xret >>
  /\ UNCHANGED notExportVars

\* the call is over; the next one may start
ExportOver ==
  /\ xpc \in {"returned", "raised"}
  /\ xpc' = "idle"
  /\ UNCHANGED << xerr, xhost, xckpt, xckptTokens, xtokens, xsteps, xid, outDir, pkgs, xnames,
                  fullAtCall, headAtCall, outDirAtCall, headSpec, xret >>
  /\ UNCHANGED notExportVars

ExportNext ==
  \/ \E host \in Hosts, ckpt \in Checkpoints, package_name \in PackageNames :
       ExportCall(host, ckpt, "u", "u", package_name, COREML_HEAD_PACKAGE_NAME)
  \/ ValidateStep
  \/ MakeOutputDir
  \/ LoadWeights
  \/ FreezeAndEval
  \/ \E ok \in BOOLEAN : FullConvert(ok)
  \/ \E e \in PackageEntries : FullRemoveEntry(e)
  \/ FullRemove
  \/ \E e \in PackageEntries : FullSaveEntry(e)
  \/ FullSave
  \/ \E layers \in HeadGraphs : HeadConvert(TRUE, layers)
  \/ HeadConvert(FALSE, <<>>)
  \/ HeadConfigure
  \/ \E e \in PackageEntries : HeadRemoveEntry(e)
  \/ HeadRemove
  \/ \E e \in PackageEntries : HeadSaveEntry(e)
  \/ HeadSave
  \/ ExportCrash
  \/ ExportOver

ExportSpec == Init /\ [][ExportNext]_vars

\* exports on a supported host under the default names, of checkpoints saved
\* under one vocabulary file by processes that imported the same or another
RelabelNext ==
  \/ \E ckpt \in Checkpoints, ckpt_tokens \in ExportVocabularies,
        tokens \in ExportVocabularies :
       ExportCall([system |-> "Darwin", native |-> TRUE], ckpt, ckpt_tokens, tokens,
                  COREML_PACKAGE_NAME, COREML_HEAD_PACKAGE_NAME)
  \/ ValidateStep
  \/ MakeOutputDir
  \/ LoadWeights
  \/ FreezeAndEval
  \/ \E ok \in BOOLEAN : FullConvert(ok)
  \/ \E e \in PackageEntries : FullRemoveEntry(e)
  \/ FullRemove
  \/ \E e \in PackageEntries : FullSaveEntry(e)
  \/ FullSave
  \/ \E layers \in HeadGraphs : HeadConvert(TRUE, layers)
  \/ HeadConvert(FALSE, <<>>)
  \/ HeadConfigure
  \/ \E e \in PackageEntries : HeadRemoveEntry(e)
  \/ HeadRemove
  \/ \E e \in PackageEntries : HeadSaveEntry(e)
  \/ HeadSave
  \/ ExportCrash
  \/ ExportOver

RelabelSpec == Init /\ [][RelabelNext]_vars

CacheNext ==
  \/ \E model_name \in Backends, v \in Vocabularies, max_samples \in 0..MaxSamplesBound,
        force_rebuild \in BOOLEAN, stream \in Streams :
       DatasetInit(model_name, v, max_samples, TARGET_TEMPERATURE, force_rebuild, stream)
  \/ \E model_name \in Backends, v \in Vocabularies : LoadThenSave(model_name, v)
  \/ SaveEmbeddings
  \/ SaveTargets
  \/ SaveMetadata
  \/ Crash

CacheSpec == Init /\ [][CacheNext]_vars

\* the temperatures a caller can pass, in hundredths: -0.07, 0, 0.07 and 1.0
Temperatures == {0 - TARGET_TEMPERATURE, 0, TARGET_TEMPERATURE, 100}

\* datasets built under any temperature
TemperatureNext ==
  \/ \E model_name \in Backends, max_samples \in 1..MaxSamplesBound,
        temperature \in Temperatures, force_rebuild \in BOOLEAN, stream \in Streams :
       DatasetInit(model_name, "u", max_samples, temperature, force_rebuild, stream)
  \/ SaveEmbeddings
  \/ SaveTargets
  \/ SaveMetadata

TemperatureSpec == Init /\ [][TemperatureNext]_vars

(***************************************************************************)
(* The vocabulary file, its import (src/src/tokens.py), its way into the   *)
(* artifact metadata and back (src/src/export.py).  A token is a sequence  *)
(* of character codes.                                                     *)
(***************************************************************************)
\* the last tokens of the vocabulary files: "", "a", "b", ",", "a,b", ",a",
\* "a,", ",,", "ab" and "aa" (which is also the first token of BaseTokens)
LastTokens ==
  { <<>>, <<97>>, <<98>>, <<44>>, <<97, 44, 98>>, <<44, 97>>, <<97, 44>>,
    <<44, 44>>, <<97, 98>>, <<97, 97>> }

\* the contents personality-tokens.json can have: one entry too few, exactly
\* VOCAB_SIZE entries, one too many; in either order of the first two
TokenLists ==
  LET plain == {BaseTokens}
                 \cup {BaseTokens \o << t >> : t \in LastTokens}
                 \cup {BaseTokens \o << t, <<122>> >> : t \in LastTokens}
  IN plain \cup {SwapFirstTwo(l) : l \in plain}
TokenFiles == { <<>> } \cup { << l >> : l \in TokenLists }

\* load_tokens without the comparison of line 46
LoadTokens_NoCountCheck(file) ==
  IF file = <<>> THEN [err |-> "FileNotFoundError", tokens |-> <<>>]
  ELSE [err |-> "", tokens |-> << file[1] >>]

\* load_tokens(path) on the file: the exception raised and the list returned
LoadTokens(file) ==
  IF file = <<>> THEN [err |-> "FileNotFoundError", tokens |-> <<>>]
  ELSE IF Len(file[1]) # VOCAB_SIZE THEN [err |-> "ValueError", tokens |-> <<>>]
  ELSE [err |-> "", tokens |-> << file[1] >>]

\* the k-th smallest element of a set of numbers
KthSmallest(S, k) == CHOOSE p \in S : Cardinality({q \in S : q < p}) = k - 1

\* s.split(","): the pieces between consecutive commas, one more than commas
Split(s) ==
  LET commas == {i \in 1..Len(s) : s[i] = Comma[1]}
      n == Cardinality(commas)
      start(k) == IF k = 1 THEN 1 ELSE KthSmallest(commas, k - 1) + 1
      stop(k) == IF k = n + 1 THEN Len(s) ELSE KthSmallest(commas, k) - 1
  IN [k \in 1..(n + 1) |-> SubSeq(s, start(k), stop(k))]

\* the vocabulary file is put in place (or removed) and a new process starts
WriteTokenFile(file) ==
  /\ tokFile' = file
  /\ vstage' = "file" /\ loadedTokens' = <<>> /\ tokErr' = ""
  /\ tokenIndex' = <<>>
  /\ personalityTokens' = <<>> /\ inspected' = <<>>
  /\ UNCHANGED notVocabVars

\* build_token_index(tokens): a dictionary keeps, for every key, the value
\* set last; indices count from 0
BuildTokenIndex(tokens) ==
  [t \in {tokens[i] : i \in 1..Len(tokens)} |->
     (CHOOSE i \in 1..Len(tokens) :
        tokens[i] = t /\ \A j \in (i + 1)..Len(tokens) : tokens[j] # t) - 1]

\* import of src.tokens: TOKENS = load_tokens(), then
\* TOKEN_INDEX = build_token_index(TOKENS)
ImportTokens ==
  /\ vstage = "file"
  /\ vstage' = "imported"
  /\ loadedTokens' = LoadTokens(tokFile).tokens
  /\ tokenIndex' = IF LoadTokens(tokFile).err = ""
                   THEN << BuildTokenIndex(LoadTokens(tokFile).tokens[1]) >>
                   ELSE <<>>
  /\ tokErr' = LoadTokens(tokFile).err
  /\ UNCHANGED << tokFile, personalityTokens, inspected >>
  /\ UNCHANGED notVocabVars

\* mlmodel.user_defined_metadata["personality_tokens"] = ",".join(TOKENS)
WriteTokenMetadata ==
  /\ vstage = "imported" /\ loadedTokens # <<>>
  /\ vstage' = "exported"
  /\ personalityTokens' = << Join(loadedTokens[1]) >>
  /\ UNCHANGED << tokFile, loadedTokens, tokenIndex, tokErr, inspected >>
  /\ UNCHANGED notVocabVars

\* inspect_mlpackage: meta["personality_tokens"].split(",")
InspectMlpackage ==
  /\ vstage = "exported"
  /\ vstage' = "inspected"
  /\ inspected' = << Split(personalityTokens[1]) >>
  /\ UNCHANGED << tokFile, loadedTokens, tokenIndex, tokErr, personalityTokens >>
  /\ UNCHANGED notVocabVars

VocabNext ==
  \/ \E file \in TokenFiles : WriteTokenFile(file)
  \/ ImportTokens
  \/ WriteTokenMetadata
  \/ InspectMlpackage

VocabSpec == Init /\ [][VocabNext]_vars

(***************************************************************************)
(* The gradient switches of PersonalityModel (src/src/model.py).           *)
(***************************************************************************)
\* the parameters of self.input_projection, self.encoder_layers and
\* self.projection among ModelKeys
InputProjectionKeys == {"input_projection.weight"}
EncoderKeys == {"encoder_layers.0.norm1.weight"}
ProjectionKeys == {"projection.weight"}
BackboneKeys == InputProjectionKeys \cup EncoderKeys
HeadKeys == ProjectionKeys \cup {"output_bias"}

\* p.numel()
Numel(k) ==
  CASE k = "input_projection.weight" -> 1536 * 512
    [] k = "encoder_layers.0.norm1.weight" -> 512
    [] k = "projection.weight" -> 512 * VOCAB_SIZE
    [] k = "output_bias" -> VOCAB_SIZE

RECURSIVE SumNumel(_)
SumNumel(keys) ==
  IF keys = {} THEN 0
  ELSE LET k == CHOOSE x \in keys : TRUE IN Numel(k) + SumNumel(keys \ {k})

\* requires_grad after the loops of a switch over the given parameters
SetRequiresGrad(grad, keys, value) ==
  [k \in ModelKeys |-> IF k \in keys THEN value ELSE grad[k]]

\* a method of the object is called: the call is logged
Called(method) ==
  /\ Len(mlog) < MaxModelCalls
  /\ mlog' = Append(mlog, method)
  /\ gradBefore' = requiresGrad

\* freeze_backbone with the first of its two loops only
FreezeBackbone_InputProjectionOnly ==
  /\ Called("freeze_backbone")
  /\ requiresGrad' = SetRequiresGrad(requiresGrad, InputProjectionKeys, FALSE)
  /\ mret' = <<>>
  /\ UNCHANGED notModelVars

FreezeBackbone ==
  /\ Called("freeze_backbone")
  /\ requiresGrad' = SetRequiresGrad(SetRequiresGrad(requiresGrad, InputProjectionKeys, FALSE),
                                     EncoderKeys, FALSE)
  /\ mret' = <<>>
  /\ UNCHANGED notModelVars

\* unfreeze_backbone with the first of its two loops only
UnfreezeBackbone_InputProjectionOnly ==
  /\ Called("unfreeze_backbone")
  /\ requiresGrad' = SetRequiresGrad(requiresGrad, InputProjectionKeys, TRUE)
  /\ mret' = <<>>
  /\ UNCHANGED notModelVars

UnfreezeBackbone ==
  /\ Called("unfreeze_backbone")
  /\ requiresGrad' = SetRequiresGrad(SetRequiresGrad(requiresGrad, InputProjectionKeys, TRUE),
                                     EncoderKeys, TRUE)
  /\ mret' = <<>>
  /\ UNCHANGED notModelVars

\* forward(x): the logits come back, no switch is touched
Forward ==
  /\ Called("forward")
  /\ mret' = << "logits" >>
  /\ UNCHANGED requiresGrad
  /\ UNCHANGED notModelVars

\* trainable_parameters(): two groups, whatever the switches are
TrainableParameters ==
  /\ Called("trainable_parameters")
  /\ mret' = << [params |-> ProjectionKeys, name |-> "projection_weight"],
                [params |-> {"output_bias"}, name |-> "output_bias"] >>
  /\ UNCHANGED requiresGrad
  /\ UNCHANGED notModelVars

\* count_parameters()
CountParameters ==
  LET total == SumNumel(ModelKeys)
      trainable == SumNumel({k \in ModelKeys : requiresGrad[k]})
  IN /\ Called("count_parameters")
     /\ mret' = << [total |-> total, trainable |-> trainable, frozen |-> total - trainable] >>
     /\ UNCHANGED requiresGrad
     /\ UNCHANGED notModelVars

ModelNext ==
  \/ FreezeBackbone
  \/ UnfreezeBackbone
  \/ Forward
  \/ TrainableParameters
  \/ CountParameters

ModelSpec == Init /\ [][ModelNext]_vars

(***************************************************************************)
(* The training run (src/src/train.py) and the backend it embeds with      *)
(* (src/src/embeddings.py).                                                *)
(***************************************************************************)
\* self.projector after LocalEmbeddingBackend.__init__: <<>> for None,
\* << "given" >> for the projector argument, << "new" >> for a fresh one
LocalProjector(hidden_size, projector) ==
  IF hidden_size # TARGET_DIM
  THEN (IF projector # <<>> THEN projector ELSE << "new" >>)
  ELSE projector

\* what EmbeddingBackend.from_env returns: the OpenAI backend, or a local
\* encoder of hidden size 384, 768 or 1536, built without projector argument
OpenAIBackend == [kind |-> "openai", hidden_size |-> TARGET_DIM, projector |-> <<>>]
LocalBackend(hidden_size) ==
  [kind |-> "local", hidden_size |-> hidden_size,
   projector |-> LocalProjector(hidden_size, <<>>)]
TrainBackends == {OpenAIBackend} \cup {LocalBackend(h) : h \in {384, 768, TARGET_DIM}}

\* the parameters of an EmbeddingProjector
ProjectorKeys == {"linear.weight", "linear.bias"}

\* val_metrics.avg_loss, in hundredths
ValLosses == {31, 47}

\* the dictionary save_checkpoint hands to torch.save, with the names of the
\* parameters whose values it holds
CheckpointFile(epoch, val_loss) ==
  [path |-> << "epoch", epoch, "valloss", val_loss >>,
   fields |-> {"epoch", "model_state_dict", "optimizer_state_dict",
               "scheduler_state_dict", "val_loss", "vocab_size", "tokens"},
   params |-> ModelKeys]

\* the dictionary save_final_weights hands to torch.save
FinalWeightsFile ==
  [path |-> << "personality_model_weights.pt" >>,
   fields |-> {"model_state_dict", "vocab_size", "tokens", "embedding_dim"},
   params |-> ModelKeys]

\* a step of train() is taken
Step(name) == tlog' = Append(tlog, name)

\* train(...) is called: seeds, device, backend (lines 335-347)
Train(backend, epochs, export_coreml) ==
  /\ tpc = "idle"
  /\ tbackend' = backend /\ tepochs' = epochs /\ texport' = export_coreml
  /\ tepoch' = 0 /\ tvalloss' = 0 /\ texported' = <<>>
  /\ Step("backend")
  /\ tpc' = "dataset"
  /\ UNCHANGED << tckpts, tweights, thistory >>
  /\ UNCHANGED notTrainVars

\* lines 350-408: dataset, split, loaders, model, optimizer, scheduler
Prepare ==
  /\ tpc = "dataset"
  /\ Step("dataset")
  /\ tpc' = IF tepochs >= 1 THEN "train_one_epoch" ELSE "save_final_weights"
  /\ tepoch' = IF tepochs >= 1 THEN 1 ELSE 0
  /\ UNCHANGED << tbackend, tepochs, texport, tvalloss, tckpts, tweights, thistory, texported >>
  /\ UNCHANGED notTrainVars

\* lines 420-422
TrainOneEpoch ==
  /\ tpc = "train_one_epoch"
  /\ Step("train_one_epoch")
  /\ tpc' = "scheduler_step"
  /\ UNCHANGED << tbackend, tepochs, texport, tepoch, tvalloss, tckpts, tweights, thistory, texported >>
  /\ UNCHANGED notTrainVars

\* line 423
SchedulerStep ==
  /\ tpc = "scheduler_step"
  /\ Step("scheduler_step")
  /\ tpc' = "validate"
  /\ UNCHANGED << tbackend, tepochs, texport, tepoch, tvalloss, tckpts, tweights, thistory, texported >>
  /\ UNCHANGED notTrainVars

\* line 426
Validate(val_loss) ==
  /\ tpc = "validate"
  /\ Step("validate")
  /\ tvalloss' = val_loss
  /\ tpc' = "save_checkpoint"
  /\ UNCHANGED << tbackend, tepochs, texport, tepoch, tckpts, tweights, thistory, texported >>
  /\ UNCHANGED notTrainVars

\* lines 450-457: save_checkpoint, then the next epoch or the end of the loop
SaveCheckpoint ==
  /\ tpc = "save_checkpoint"
  /\ Step("save_checkpoint")
  /\ tckpts' = {f \in tckpts : f.path # CheckpointFile(tepoch, tvalloss).path}
                 \cup {CheckpointFile(tepoch, tvalloss)}
  /\ IF tepoch < tepochs
     THEN tpc' = "train_one_epoch" /\ tepoch' = tepoch + 1
     ELSE tpc' = "save_final_weights" /\ tepoch' = tepoch
  /\ UNCHANGED << tbackend, tepochs, texport, tvalloss, tweights, thistory, texported >>
  /\ UNCHANGED notTrainVars

\* lines 460-461
SaveFinalWeights ==
  /\ tpc = "save_final_weights"
  /\ Step("save_final_weights")
  /\ tweights' = << FinalWeightsFile >>
  /\ tpc' = "history"
  /\ UNCHANGED << tbackend, tepochs, texport, tepoch, tvalloss, tckpts, thistory, texported >>
  /\ UNCHANGED notTrainVars

\* the history is written and the export follows whatever export_coreml is
WriteHistory_AlwaysExport ==
  /\ tpc = "history"
  /\ Step("history")
  /\ thistory' = << tepoch >>
  /\ tpc' = "export"
  /\ UNCHANGED << tbackend, tepochs, texport, tepoch, tvalloss, tckpts, tweights, texported >>
  /\ UNCHANGED notTrainVars

\* lines 464-468
WriteHistory ==
  /\ tpc = "history"
  /\ Step("history")
  /\ thistory' = << tepoch >>
  /\ tpc' = IF texport THEN "export" ELSE "return"
  /\ UNCHANGED << tbackend, tepochs, texport, tepoch, tvalloss, tckpts, tweights, texported >>
  /\ UNCHANGED notTrainVars

\* lines 471-477: export_to_coreml(weights_path, output_path) returns or raises
ExportAfterTraining(ok) ==
  /\ tpc = "export"
  /\ Step("export_to_coreml")
  /\ texported' = << tweights[1].path >>
  /\ tpc' = IF ok THEN "return" ELSE "raised"
  /\ UNCHANGED << tbackend, tepochs, texport, tepoch, tvalloss, tckpts, tweights, thistory >>
  /\ UNCHANGED notTrainVars

\* lines 479-480
TrainReturn ==
  /\ tpc = "return"
  /\ Step("return")
  /\ tpc' = "returned"
  /\ UNCHANGED << tbackend, tepochs, texport, tepoch, tvalloss, tckpts, tweights, thistory, texported >>
  /\ UNCHANGED notTrainVars

TrainNext ==
  \/ \E backend \in TrainBackends, epochs \in 0..MaxEpochs, export_coreml \in BOOLEAN :
       Train(backend, epochs, export_coreml)
  \/ Prepare
  \/ TrainOneEpoch
  \/ SchedulerStep
  \/ \E val_loss \in ValLosses : Validate(val_loss)
  \/ SaveCheckpoint
  \/ SaveFinalWeights
  \/ WriteHistory
  \/ \E ok \in BOOLEAN : ExportAfterTraining(ok)
  \/ TrainReturn

TrainSpec == Init /\ [][TrainNext]_vars

(***************************************************************************)
(* embed(texts, batch_size) of the two backends (src/src/embeddings.py),   *)
(* loop iteration by loop iteration.  The encoder and the service give one *)
(* vector per text of the batch, in the order of the batch.                *)
(***************************************************************************)
\* the texts a call can be given: one to MaxTexts texts out of two
TextLists == UNION { [1..n -> {1, 2}] : n \in 1..MaxTexts }

\* texts[i : i + batch_size] cut one item short
BatchTexts_OneShort(texts, i, batch_size) ==
  SubSeq(texts, i + 1, IF i + batch_size - 1 < Len(texts) THEN i + batch_size - 1 ELSE Len(texts))

\* texts[i : i + batch_size], i counted from 0
BatchTexts(texts, i, batch_size) ==
  SubSeq(texts, i + 1, IF i + batch_size < Len(texts) THEN i + batch_size ELSE Len(texts))

\* torch.cat(all_vecs, dim=0)
RECURSIVE Cat(_)
Cat(all_vecs) ==
  IF all_vecs = <<>> THEN <<>> ELSE Head(all_vecs) \o Cat(Tail(all_vecs))

\* embed(texts, batch_size) is called on a backend
EmbedCall(backend, texts, batch_size) ==
  /\ epc = "idle"
  /\ ebackend' = backend /\ etexts' = texts /\ ebatchSize' = batch_size
  /\ ei' = 0 /\ ebatches' = <<>> /\ eallVecs' = <<>> /\ eresult' = <<>>
  /\ epc' = "loop"
  /\ UNCHANGED notEmbedVars

\* one iteration of: for i in range(0, len(texts), batch_size)
EmbedBatch ==
  LET batch_texts == BatchTexts(etexts, ei, ebatchSize)
  IN /\ epc = "loop" /\ ei < Len(etexts)
     /\ ebatches' = Append(ebatches, batch_texts)
     /\ eallVecs' = Append(eallVecs, Embed(ebackend, batch_texts))
     /\ ei' = ei + ebatchSize
     /\ UNCHANGED << epc, ebackend, etexts, ebatchSize, eresult >>
     /\ UNCHANGED notEmbedVars

\* the loop is over: return torch.cat(all_vecs, dim=0)
EmbedReturn ==
  /\ epc = "loop" /\ ei >= Len(etexts)
  /\ eresult' = Cat(eallVecs)
  /\ epc' = "returned"
  /\ UNCHANGED << ebackend, etexts, ebatchSize, ei, ebatches, eallVecs >>
  /\ UNCHANGED notEmbedVars

\* the caller goes on; another call may follow
EmbedOver ==
  /\ epc = "returned"
  /\ epc' = "idle"
  /\ UNCHANGED << ebackend, etexts, ebatchSize, ei, ebatches, eallVecs, eresult >>
  /\ UNCHANGED notEmbedVars

EmbedNext ==
  \/ \E backend \in Backends, texts \in TextLists, batch_size \in 1..MaxBatchSize :
       EmbedCall(backend, texts, batch_size)
  \/ EmbedBatch
  \/ EmbedReturn
  \/ EmbedOver

EmbedSpec == Init /\ [][EmbedNext]_vars

(***************************************************************************)
(* LocalEmbeddingBackend (src/src/embeddings.py): its constructor and what *)
(* embed does to the pooled vector of every text.  A row of the result is  *)
(* the text with what was done to its pooled vector.                       *)
(***************************************************************************)
\* encoder.config.hidden_size of the encoders a backend can be built on
HiddenSizes == {384, 768, TARGET_DIM}

\* the projector arguments of the constructor: None or an EmbeddingProjector
ProjectorArgs == { <<>>, << "given" >> }

\* lines 199-205 on one pooled vector: projection if self.projector is not
\* None, then normalisation if asked for
PooledRow(self, text, normalize) ==
  [text |-> text,
   projected |-> self.projector # <<>>,
   dim |-> IF self.projector # <<>> THEN TARGET_DIM ELSE self.hidden_size,
   normalized |-> normalize]

\* the loop of lines 175-207 from offset i on, and torch.cat of its batches
RECURSIVE LocalEmbedFrom(_, _, _, _, _)
LocalEmbedFrom(self, texts, i, batch_size, normalize) ==
  IF i >= Len(texts) THEN <<>>
  ELSE LET batch_texts == BatchTexts(texts, i, batch_size)
       IN [k \in 1..Len(batch_texts) |-> PooledRow(self, batch_texts[k], normalize)]
            \o LocalEmbedFrom(self, texts, i + batch_size, batch_size, normalize)

\* LocalEmbeddingBackend(model_name, device, projector) on an encoder of the
\* given hidden size
LocalInit(hidden_size, projector) ==
  /\ lpc' = "built"
  /\ lprojectorArg' = projector
  /\ lself' = [hidden_size |-> hidden_size,
               projector |-> LocalProjector(hidden_size, projector)]
  /\ lcall' = [texts |-> <<>>, batch_size |-> 1, normalize |-> TRUE]
  /\ lresult' = <<>>
  /\ UNCHANGED notLocalVars

\* self.embed(texts, batch_size, normalize)
LocalEmbed(texts, batch_size, normalize) ==
  /\ lpc # "none"
  /\ lpc' = "embedded"
  /\ lcall' = [texts |-> texts, batch_size |-> batch_size, normalize |-> normalize]
  /\ lresult' = LocalEmbedFrom(lself, texts, 0, batch_size, normalize)
  /\ UNCHANGED << lprojectorArg, lself >>
  /\ UNCHANGED notLocalVars

LocalNext ==
  \/ \E hidden_size \in HiddenSizes, projector \in ProjectorArgs :
       LocalInit(hidden_size, projector)
  \/ \E texts \in TextLists, batch_size \in 1..MaxBatchSize, normalize \in BOOLEAN :
       LocalEmbed(texts, batch_size, normalize)

LocalSpec == Init /\ [][LocalNext]_vars

(***************************************************************************)
(* PersonalityDataset._load_texts (src/src/dataset.py), sample by sample.  *)
(***************************************************************************)
\* the streams load_dataset can give: up to MaxStream samples, each with
\* text 1, text 2 or without usable text
SampleStreams == UNION { [1..n -> {0, 1, 2}] : n \in 0..MaxStream }

\* _load_texts(max_samples) is called: texts = [], the stream is opened
LoadTextsCall(stream, max_samples) ==
  /\ qpc = "idle"
  /\ qpc' = "loop"
  /\ qstream' = stream /\ qmax' = max_samples
  /\ qi' = 0 /\ qtexts' = <<>>
  /\ UNCHANGED notTextsVars

\* one pass of the loop of lines 333-338: the next sample is taken, its
\* text appended if it has one, and the loop left if texts is long enough
TakeSample ==
  LET text == ExtractText(qstream[qi + 1])
      texts == IF text # 0 THEN Append(qtexts, text) ELSE qtexts
  IN /\ qpc = "loop" /\ qi < Len(qstream)
     /\ qi' = qi + 1
     /\ qtexts' = texts
     /\ qpc' = IF Len(texts) >= qmax THEN "returned" ELSE "loop"
     /\ UNCHANGED << qstream, qmax >>
     /\ UNCHANGED notTextsVars

\* the stream is exhausted: the loop ends and texts is returned
StreamExhausted ==
  /\ qpc = "loop" /\ qi = Len(qstream)
  /\ qpc' = "returned"
  /\ UNCHANGED << qstream, qmax, qi, qtexts >>
  /\ UNCHANGED notTextsVars

\* the caller goes on; another call may follow
LoadTextsOver ==
  /\ qpc = "returned"
  /\ qpc' = "idle"
  /\ UNCHANGED << qstream, qmax, qi, qtexts >>
  /\ UNCHANGED notTextsVars

TextsNext ==
  \/ \E stream \in SampleStreams, max_samples \in 0..MaxSamplesBound :
       LoadTextsCall(stream, max_samples)
  \/ TakeSample
  \/ StreamExhausted
  \/ LoadTextsOver

TextsSpec == Init /\ [][TextsNext]_vars

(***************************************************************************)
(* Properties of the dataset cache, checked under CacheSpec.               *)
(***************************************************************************)

\* the metadata file names another backend or another token hash than the
\* process (model_name, v) has
MetadataMismatch(meta, model_name, v) ==
  /\ meta # <<>>
  /\ \/ meta[1].model_name # model_name
     \/ meta[1].token_hash # CurrentTokenHash(v)

\* the tokens a and b have the same length and differ at exactly one position
OneCharacterApart(a, b) ==
  /\ Len(a) = Len(b)
  /\ Cardinality({k \in 1..Len(a) : a[k] # b[k]}) = 1

\* the token lists ta and tb differ in one token only, and there by one character
SingleCharacterChange(ta, tb) ==
  /\ Len(ta) = Len(tb)
  /\ \E i \in 1..Len(ta) :
       /\ OneCharacterApart(ta[i], tb[i])
       /\ \A j \in 1..Len(ta) : j # i => ta[j] = tb[j]

\* the pairs of vocabulary files that are a single-character change apart
SingleCharacterPairs ==
  { p \in Vocabularies \X Vocabularies : SingleCharacterChange(TOKENS(p[1]), TOKENS(p[2])) }

\* C1: a crash between the writes of a rebuild's _save_cache never leaves a
\* cache that _load_cache accepts under the crashed process's backend identity
\* and token hash, also when a valid record was there before the rebuild.
C1_CrashLeavesNoAcceptedRecord ==
  dop = "crashed" => Load(drun.model_name, drun.vocab) = None

\* C2: _load_cache returns a pair only if metadata.json exists, names the
\* caller's backend identity and holds the hash of the caller's token list;
\* where one of the three fails it returns None.
C2_HitNeedsMatchingMetadata ==
  \A model_name \in Backends, v \in Vocabularies :
    Load(model_name, v) # None
      => /\ metaFile # <<>>
         /\ metaFile[1].model_name = model_name
         /\ metaFile[1].token_hash = CurrentTokenHash(v)

\* a cache that one identity loads, that another backend misses and that
\* another vocabulary misses
C2_Witness ==
  \E model_name \in Backends, v \in Vocabularies :
    /\ Load(model_name, v) # None
    /\ \E other \in Backends : other # model_name /\ Load(other, v) = None
    /\ \E w \in Vocabularies : w # v /\ Load(model_name, w) = None

\* C3: a cache saved under token list A is a miss under every token list B
\* that differs from A by a single character of one token: _token_hash
\* gives A and B different values.
C3_ChangedVocabularyMisses ==
  \A p \in SingleCharacterPairs :
    (dop = "rebuilt" /\ drun.vocab = p[1])
      => /\ Load(drun.model_name, p[2]) = None
         /\ CurrentTokenHash(p[1]) # CurrentTokenHash(p[2])

\* C4: whenever _load_cache returns a pair, embeddings and targets have the
\* same number of rows, the n_samples of metadata.json.
C4_LoadedRecordConsistent ==
  \A model_name \in Backends, v \in Vocabularies :
    Load(model_name, v) # None
      => /\ Len(Load(model_name, v)[1]) = Len(Load(model_name, v)[2])
         /\ Len(Load(model_name, v)[1]) = metaFile[1].n_samples

\* C5: a cache whose backend identity or token hash differs is a miss, not
\* an error: _load_cache returns None, __init__ goes on to rebuild and save,
\* and once it has, _load_cache under the process's identity returns the
\* pair just built.
C5_MismatchIsMissThenRebuild ==
  /\ \A model_name \in Backends, v \in Vocabularies :
       MetadataMismatch(metaFile, model_name, v) => Load(model_name, v) = None
  /\ (dop # "none" /\ MetadataMismatch(metaBefore, drun.model_name, drun.vocab))
       => dop \in {"rebuild", "rebuilt", "crashed"}
  /\ dop = "rebuilt"
       => /\ Load(drun.model_name, drun.vocab) = << selfEmb, selfTgt >>
          /\ selfEmb # <<>> /\ Len(selfTgt) = Len(selfEmb)
          /\ \A i \in 1..Len(selfEmb) :
               /\ selfEmb[i][1] = drun.model_name
               /\ selfTgt[i] = << selfEmb[i], drun.vocab, TARGET_TEMPERATURE >>

\* a rebuild over a cache of another backend or vocabulary has completed
C5_Witness ==
  /\ dop = "rebuilt"
  /\ MetadataMismatch(metaBefore, drun.model_name, drun.vocab)
  /\ Load(drun.model_name, drun.vocab) = << selfEmb, selfTgt >>

\* C6: if _load_cache returns (E, T), then _save_cache(E, T, same identity)
\* followed by _load_cache returns (E, T) again and leaves the metadata
\* record as it was.
C6_LoadSaveLoadIdempotent ==
  dop = "resaved"
    => /\ Load(drun.model_name, drun.vocab) = firstLoad
       /\ metaFile = metaBefore

\* C25: after a construction that hits the cache, the dataset has
\* min(cached sample count, max_samples) items, embeddings and targets have
\* the same length, item i pairs row i of the cached embeddings with row i of
\* the cached targets, and the cache files are as they were.
C25_HitIsPrefixOfCache ==
  dop = "hit"
    => /\ firstLoad # None
       /\ Len(selfEmb) = (IF Len(firstLoad[1]) < dargs.max_samples
                          THEN Len(firstLoad[1]) ELSE dargs.max_samples)
       /\ Len(selfTgt) = Len(selfEmb)
       /\ \A i \in 1..Len(selfEmb) :
            /\ selfEmb[i] = firstLoad[1][i]
            /\ i <= Len(selfTgt) /\ i <= Len(firstLoad[2])
            /\ selfTgt[i] = firstLoad[2][i]
       /\ embFile = << firstLoad[1] >> /\ tgtFile = << firstLoad[2] >>
       /\ metaFile = metaBefore

\* the texts of the first n samples of a stream, in stream order
TextsOf(stream, n) == SelectSeq(SubSeq(stream, 1, n), LAMBDA x : ExtractText(x) # 0)

\* C26: for every max_samples >= 0 and every stream, _load_texts returns at
\* most max_samples texts, only texts that were extracted and in stream
\* order, and takes no sample from the stream once max_samples texts have
\* been collected.
C26_LoadTextsAtMostMaxSamples ==
  qpc = "returned"
    => /\ Len(qtexts) <= qmax
       /\ qtexts = TextsOf(qstream, qi)
       /\ \A j \in 0..(qi - 1) : Len(TextsOf(qstream, j)) < qmax

(***************************************************************************)
(* Properties of the Core ML export, checked under ExportSpec.             *)
(***************************************************************************)

\* the steps of export_to_coreml that trace, convert or save
ConversionSteps ==
  {"full_trace", "full_convert", "full_save",
   "head_trace", "head_convert", "head_configure", "head_save"}

\* the bias vector of the head is marked updatable: in the located
\* innerProduct layer when the layer holds it, in the layer of its own else
BiasVectorUpdatable(layers) ==
  LET h == FindHeadLayer(layers)
  IN /\ h # 0
     /\ \/ layers[h].hasBias /\ layers[h].biasUpdatable
        \/ \E i \in 1..Len(layers) : layers[i].kind = "bias" /\ layers[i].isUpdatable

\* the located head layer and its weight matrix are marked updatable
HeadLayerUpdatable(layers) ==
  LET h == FindHeadLayer(layers)
  IN h # 0 /\ layers[h].isUpdatable /\ layers[h].weightsUpdatable

\* C7: every head artifact _export_head_model saved has spec.isUpdatable set
\* and both the head weight matrix and the head bias vector marked updatable,
\* whatever shape the converted graph took.
C7_HeadWeightAndBiasUpdatable ==
  \A n \in PackageNames :
    (pkgs[n] # <<>> /\ pkgs[n][1].kind = "head")
      => /\ pkgs[n][1].spec.isUpdatable
         /\ HeadLayerUpdatable(pkgs[n][1].spec.layers)
         /\ BiasVectorUpdatable(pkgs[n][1].spec.layers)

\* C8: when the converted head graph has no innerProduct layer with VOCAB_SIZE
\* output channels, _configure_updatable_head_spec raises RuntimeError and
\* the head artifact is not written; no saved head artifact lacks the
\* updatable flag on its located layer.
C8_NoHeadLayerRaisesAndNothingSaved ==
  /\ (headSpec # <<>> /\ FindHeadLayer(headSpec[1].layers) = 0 /\ xpc # "head_configure")
       => /\ xpc \in {"raised", "idle"}
          /\ xerr = "RuntimeError"
          /\ "head_save" \notin xsteps
          /\ \A n \in PackageNames :
               pkgs[n] # <<>> => ~(pkgs[n][1].kind = "head" /\ pkgs[n][1].export = xid)
          /\ xnames.package_name # xnames.head_package_name => headPkg = headAtCall
  /\ \A n \in PackageNames :
       (pkgs[n] # <<>> /\ pkgs[n][1].kind = "head")
         => /\ pkgs[n][1].spec.isUpdatable
            /\ HeadLayerUpdatable(pkgs[n][1].spec.layers)

\* an export over an existing head artifact has raised in
\* _configure_updatable_head_spec for want of a head layer
C8_Witness ==
  /\ xpc = "raised" /\ xerr = "RuntimeError"
  /\ "head_configure" \in xsteps
  /\ FindHeadLayer(headSpec[1].layers) = 0
  /\ headAtCall # <<>> /\ headPkg = headAtCall

\* C9: on a host that is not Darwin or lacks the native coremltools
\* extension, export_to_coreml raises RuntimeError before any other step: the
\* output directory is as it was, no checkpoint is loaded, no conversion
\* is started.
C9_UnsupportedHostRaisesFirst ==
  (xid > 0 /\ xpc # "validate" /\ (xhost.system # "Darwin" \/ ~xhost.native))
    => /\ xpc \in {"raised", "idle"}
       /\ xerr = "RuntimeError"
       /\ xsteps = {}
       /\ outDir = outDirAtCall
       /\ fullPkg = fullAtCall /\ headPkg = headAtCall
       /\ xret = <<>>

\* exports have raised on a Darwin host without the native extension, where
\* no output directory exists, and on a host holding earlier artifacts
C9_Witness ==
  /\ xpc = "raised" /\ xerr = "RuntimeError"
  /\ xsteps = {}
  /\ xhost.system = "Darwin" /\ ~xhost.native
  /\ fullPkg # <<>> /\ headPkg # <<>>

\* C10: when the checkpoint's parameter names differ from the model's (a
\* missing or an unexpected key), export_to_coreml raises RuntimeError:
\* nothing is traced or converted and neither artifact is written or
\* overwritten.
C10_MismatchedCheckpointAborts ==
  (xid > 0 /\ xckpt # ModelKeys /\ ValidateCoremlEnvironment(xhost) = ""
     /\ xpc \notin {"validate", "mkdir", "load_weights"})
    => /\ xpc \in {"raised", "idle"}
       /\ xerr = "RuntimeError"
       /\ xsteps \cap ConversionSteps = {}
       /\ "freeze_backbone" \notin xsteps
       /\ fullPkg = fullAtCall /\ headPkg = headAtCall
       /\ xret = <<>>

\* an export over existing artifacts has raised on a checkpoint that has
\* every key of the model and one more
C10_Witness ==
  /\ xpc = "raised" /\ xerr = "RuntimeError"
  /\ "load_weights" \in xsteps
  /\ MissingKeys(xckpt) = {} /\ UnexpectedKeys(xckpt) # {}
  /\ fullAtCall # <<>> /\ headAtCall # <<>>
  /\ fullPkg = fullAtCall /\ headPkg = headAtCall

\* the package at a path is whole: nothing is there, or all entries are
PackageWhole(pkg) == pkg = <<>> \/ pkg[1].entries = PackageEntries

\* C11: replacing an artifact (remove the package, then save) never leaves
\* a partial artifact at the path: at every point, a crash between removal
\* and completed save included, the path holds the complete previous
\* artifact, the complete new artifact, or nothing.
C11_NoPartialArtifact ==
  /\ PackageWhole(fullPkg) /\ PackageWhole(headPkg)
  /\ fullPkg \in {<<>>, fullAtCall, << FullPackage(xid) >>}
  /\ headPkg = <<>> \/ headPkg = headAtCall
       \/ (headSpec # <<>> /\ headPkg = << HeadPackage(xid, headSpec[1]) >>)

\* the metadata every artifact is to carry
MetadataFields == {"personality_tokens", "vocab_size", "embedding_dim", "latent_dim"}

\* C12: every artifact export_to_coreml writes, full and head alike, carries
\* the four metadata fields: joined token sequence, vocabulary size,
\* embedding dimension and latent dimension.
C12_ArtifactsCarryAllMetadata ==
  \A n \in PackageNames :
    pkgs[n] # <<>> => MetadataFields \subseteq pkgs[n][1].metadata

\* C22: when export_to_coreml has returned, both artifacts were persisted by
\* this call, the full one at output_dir/package_name and the head one at
\* output_dir/head_package_name; the pair returned is (full path, head
\* path); the head artifact is marked updatable and the full one is not.
C22_ReturnMeansBothArtifacts ==
  xret # <<>>
    => /\ xret = << xnames.package_name, xnames.head_package_name >>
       /\ fullPkg = << FullPackage(xid) >>
       /\ headPkg = << HeadPackage(xid, headSpec[1]) >>
       /\ headPkg[1].spec.isUpdatable
       /\ ~fullPkg[1].spec.isUpdatable

\* C30: in export_to_coreml the backbone is frozen and the model is in eval
\* mode before anything is traced, and the full artifact is saved before
\* the head is traced and converted; so when the head step fails, the
\* destination holds the full artifact of this call together with the head
\* artifact that was there before the call (or none), and nothing is
\* returned.
C30_FullSavedBeforeHeadStep ==
  /\ "full_trace" \in xsteps => {"freeze_backbone", "eval"} \subseteq xsteps
  /\ "head_trace" \in xsteps => {"freeze_backbone", "eval", "full_save"} \subseteq xsteps
  /\ xpc = "head_convert" => fullPkg = << FullPackage(xid) >>
  /\ (/\ xpc \in {"raised", "idle"}
      /\ "head_trace" \in xsteps
      /\ xerr \in {"ConversionError", "RuntimeError"})
       => /\ pkgs[xnames.package_name] = << FullPackage(xid) >>
          /\ pkgs[xnames.head_package_name] = headAtCall
          /\ xret = <<>>

(***************************************************************************)
(* Properties of the export under a changed vocabulary, checked under      *)
(* RelabelSpec.                                                            *)
(***************************************************************************)

\* C29: export_to_coreml never compares the checkpoint's token sequence
\* with the running vocabulary: it raises for the checkpoint's parameter
\* names, a failed conversion or a missing head layer only, and the
\* personality_tokens of every artifact it writes is the joined TOKENS of
\* the exporting process, also when the checkpoint was saved under another
\* ordering of the same tokens.
C29_ExportLabelsWithRunningTokens ==
  /\ (xpc \in {"raised", "idle"} /\ xerr = "RuntimeError")
       => \/ ~CheckpointMatches(xckpt)
          \/ (headSpec # <<>> /\ FindHeadLayer(headSpec[1].layers) = 0)
  /\ \A n \in PackageNames :
       (pkgs[n] # <<>> /\ pkgs[n][1].export = xid)
         => pkgs[n][1].personality_tokens = Join(TOKENS(xtokens))
  /\ xret # <<>>
       => /\ fullPkg[1].personality_tokens = Join(TOKENS(xtokens))
          /\ headPkg[1].personality_tokens = Join(TOKENS(xtokens))

\* an export of weights saved under the reference ordering has returned in
\* a process that imported the reordered file: both artifacts carry the
\* reordered sequence
C29_Witness ==
  /\ xpc = "returned" /\ xerr = ""
  /\ xckptTokens = "u" /\ xtokens = "s"
  /\ Join(TOKENS("u")) # Join(TOKENS("s"))
  /\ Len(TOKENS("u")) = Len(TOKENS("s"))
  /\ fullPkg[1].personality_tokens = Join(TOKENS("s"))
  /\ headPkg[1].personality_tokens = Join(TOKENS("s"))

(***************************************************************************)
(* Properties of the vocabulary, checked under VocabSpec.                  *)
(***************************************************************************)

\* C13: splitting the stored personality_tokens value on "," gives back the
\* token sequence that was joined: same length, string for string, position
\* for position, also for tokens that are empty or hold a comma.
C13_TokenMetadataRoundTrip ==
  vstage = "inspected" => inspected[1] = loadedTokens[1]

\* C17: load_tokens raises FileNotFoundError when the file is missing and
\* ValueError when the tokens field does not hold exactly VOCAB_SIZE
\* entries; otherwise it returns the file's list unchanged, so TOKENS always
\* has VOCAB_SIZE entries.
C17_LoadTokensChecksCount ==
  vstage # "file"
    => /\ tokFile = <<>> => (tokErr = "FileNotFoundError" /\ loadedTokens = <<>>)
       /\ (tokFile # <<>> /\ Len(tokFile[1]) # VOCAB_SIZE)
            => (tokErr = "ValueError" /\ loadedTokens = <<>>)
       /\ (tokFile # <<>> /\ Len(tokFile[1]) = VOCAB_SIZE)
            => (tokErr = "" /\ loadedTokens = tokFile)
       /\ loadedTokens # <<>> => Len(loadedTokens[1]) = VOCAB_SIZE

\* the import of a file with one entry too many has raised ValueError
C17_Witness ==
  /\ vstage = "imported"
  /\ tokFile # <<>> /\ Len(tokFile[1]) = VOCAB_SIZE + 1
  /\ tokErr = "ValueError" /\ loadedTokens = <<>>

\* C28: for every token list load_tokens accepts, TOKEN_INDEX is the
\* inverse of TOKENS: TOKEN_INDEX[TOKENS[i]] = i at every position i, and
\* TOKEN_INDEX has VOCAB_SIZE entries.
C28_TokenIndexInvertsTokens ==
  loadedTokens # <<>>
    => /\ tokenIndex # <<>>
       /\ \A i \in 1..Len(loadedTokens[1]) :
            tokenIndex[1][loadedTokens[1][i]] = i - 1
       /\ Cardinality(DOMAIN tokenIndex[1]) = VOCAB_SIZE

(***************************************************************************)
(* Properties of the gradient switches, checked under ModelSpec.           *)
(***************************************************************************)

\* the last freeze_backbone or unfreeze_backbone among the first n calls,
\* "" if there is none
RECURSIVE LastSwitch(_, _)
LastSwitch(log, n) ==
  IF n = 0 THEN ""
  ELSE IF log[n] \in {"freeze_backbone", "unfreeze_backbone"} THEN log[n]
  ELSE LastSwitch(log, n - 1)

\* the parameters in the groups a trainable_parameters call returned
ReturnedParameters(groups) == UNION { groups[i].params : i \in 1..Len(groups) }

\* C14: after freeze_backbone, trainable_parameters returns groups that hold
\* exactly the projection weight and the output bias; requires_grad is
\* False on every backbone parameter and True on every returned one.
C14_FrozenThenTrainableIsHeadOnly ==
  (mlog # <<>> /\ mlog[Len(mlog)] = "trainable_parameters"
     /\ LastSwitch(mlog, Len(mlog)) = "freeze_backbone")
    => /\ ReturnedParameters(mret) = HeadKeys
       /\ ReturnedParameters(mret) \cap BackboneKeys = {}
       /\ \A k \in BackboneKeys : ~requiresGrad[k]
       /\ \A k \in ReturnedParameters(mret) : requiresGrad[k]

\* freeze_backbone, then trainable_parameters
C14_Witness ==
  /\ mlog = << "freeze_backbone", "trainable_parameters" >>
  /\ ReturnedParameters(mret) = HeadKeys

\* C15: over any sequence of calls, the backbone parameters have gradients
\* disabled from a freeze_backbone until the next unfreeze_backbone, which
\* enables them all again; both are idempotent; the head parameters are
\* never touched and stay enabled.
C15_FreezeUnfreezeDiscipline ==
  /\ LastSwitch(mlog, Len(mlog)) = "freeze_backbone"
       => \A k \in BackboneKeys : ~requiresGrad[k]
  /\ LastSwitch(mlog, Len(mlog)) = "unfreeze_backbone"
       => \A k \in BackboneKeys : requiresGrad[k]
  /\ (Len(mlog) >= 2 /\ mlog[Len(mlog)] = mlog[Len(mlog) - 1]
        /\ mlog[Len(mlog)] \in {"freeze_backbone", "unfreeze_backbone"})
       => requiresGrad = gradBefore
  /\ \A k \in HeadKeys : requiresGrad[k] /\ gradBefore[k]

\* frozen, used, frozen again and unfrozen: every parameter is enabled
C15_Witness ==
  /\ Len(mlog) = 3
  /\ mlog[1] = "freeze_backbone" /\ mlog[3] = "unfreeze_backbone"
  /\ \A k \in ModelKeys : requiresGrad[k]
  /\ \E k \in BackboneKeys : ~gradBefore[k]

(***************************************************************************)
(* Properties of the target temperature, checked under TemperatureSpec.    *)
(***************************************************************************)

\* every row of the targets was computed under a temperature above zero
PositiveTemperatureRows(targets) ==
  \A i \in 1..Len(targets) : targets[i][3] > 0

\* C16: compute_soft_targets refuses a temperature that is not above zero,
\* so a PersonalityDataset built with one never holds or caches targets.
C16_NonPositiveTemperatureRejected ==
  /\ PositiveTemperatureRows(selfTgt)
  /\ tgtFile # <<>> => PositiveTemperatureRows(tgtFile[1])

\* C27: whether the constructor takes the cache depends on the metadata
\* file, the backend identity, the token hash and the presence of the two
\* tensor files only, not on temperature or max_samples: without
\* force_rebuild an acceptable cache is always a hit, the targets returned
\* are the cached ones whatever temperature was asked for, and a cache with
\* fewer samples than max_samples is returned as it is, without a rebuild.
C27_HitIgnoresTemperatureAndSize ==
  /\ (dop \in {"hit", "rebuild"} /\ dpc \in {"idle", "save_embeddings"}
        /\ ~dargs.force_rebuild)
       => (dop = "hit" <=> Load(drun.model_name, drun.vocab) # None)
  /\ dop = "hit"
       => /\ ~dargs.force_rebuild
          /\ firstLoad = Load(drun.model_name, drun.vocab)
          /\ metaFile = metaBefore
          /\ Len(selfTgt) <= Len(firstLoad[2])
          /\ \A i \in 1..Len(selfTgt) : selfTgt[i] = firstLoad[2][i]
          /\ Len(firstLoad[1]) <= dargs.max_samples
               => (selfEmb = firstLoad[1] /\ selfTgt = firstLoad[2])

\* a cache of one sample built under the default temperature was hit by a
\* constructor asking for two samples under another temperature
C27_Witness ==
  /\ dop = "hit"
  /\ Len(firstLoad[1]) = 1 /\ dargs.max_samples = 2
  /\ selfTgt = firstLoad[2]
  /\ selfTgt[1][3] = TARGET_TEMPERATURE /\ dargs.temperature = 100

(***************************************************************************)
(* Properties of the training run, checked under TrainSpec.                *)
(***************************************************************************)

\* the files the run has written with torch.save
WrittenFiles == tckpts \cup {tweights[i] : i \in 1..Len(tweights)}

\* C18: when the backend holds an EmbeddingProjector, every file
\* save_checkpoint and save_final_weights write holds the projector's
\* parameters.
C18_ProjectorIsCheckpointed ==
  tbackend.projector # <<>>
    => \A f \in WrittenFiles : ProjectorKeys \subseteq f.params

\* C19: every checkpoint file and the final weights file hold model
\* parameter state, vocabulary size, token sequence and embedding dimension.
C19_CheckpointsCarryAllFields ==
  \A f \in WrittenFiles :
    {"model_state_dict", "vocab_size", "tokens", "embedding_dim"} \subseteq f.fields

\* the steps of epochs 1..n, in order
RECURSIVE EpochSteps(_)
EpochSteps(n) ==
  IF n = 0 THEN <<>>
  ELSE EpochSteps(n - 1)
         \o << "train_one_epoch", "scheduler_step", "validate", "save_checkpoint" >>

\* the steps of a whole run of train() with the given arguments
RunSteps(epochs, export_coreml) ==
  << "backend", "dataset" >> \o EpochSteps(epochs)
    \o << "save_final_weights", "history" >>
    \o (IF export_coreml THEN << "export_to_coreml" >> ELSE <<>>)
    \o << "return" >>

\* C24: a run of train() with epochs = E takes, for each epoch 1..E in
\* order, train_one_epoch, scheduler.step, validate and save_checkpoint, one
\* checkpoint per epoch; then save_final_weights, then the history; and
\* export_to_coreml follows if and only if export_coreml is true, called with
\* the weights file just written.
C24_TrainStepsInOrder ==
  /\ Len(tlog) <= Len(RunSteps(tepochs, texport))
  /\ tlog = SubSeq(RunSteps(tepochs, texport), 1, Len(tlog))
  /\ tpc = "returned" => tlog = RunSteps(tepochs, texport)
  /\ \A e \in 1..tepochs :
       Cardinality({f \in tckpts : f.path[2] = e})
         = (IF e < tepoch \/ tpc \in {"save_final_weights", "history", "export",
                                       "return", "returned", "raised"}
            THEN 1 ELSE 0)
  /\ tweights # <<>> => Cardinality(tckpts) = tepochs
  /\ thistory # <<>> => tweights # <<>>
  /\ texported # <<>> => (texport /\ tweights # <<>> /\ texported[1] = tweights[1].path)
  /\ (tpc = "returned" /\ texport) => texported # <<>>

\* a run of two epochs with export has returned
C24_Witness ==
  /\ tpc = "returned" /\ tepochs = 2 /\ texport
  /\ Cardinality(tckpts) = 2
  /\ texported = << tweights[1].path >>
  /\ Len(tlog) = 14

(***************************************************************************)
(* Properties of embed, checked under EmbedSpec.                           *)
(***************************************************************************)

\* C20: for N >= 1 texts and batch_size >= 1, embed handles the texts in
\* consecutive batches of at most batch_size items that partition the input
\* in order, and returns N rows, row i the embedding of texts[i].
C20_EmbedBatchesInOrder ==
  /\ epc # "idle"
       => /\ \A b \in 1..Len(ebatches) :
               Len(ebatches[b]) >= 1 /\ Len(ebatches[b]) <= ebatchSize
          /\ Cat(ebatches) = SubSeq(etexts, 1, Len(Cat(ebatches)))
  /\ epc = "returned"
       => /\ Cat(ebatches) = etexts
          /\ Len(eresult) = Len(etexts)
          /\ \A i \in 1..Len(etexts) : eresult[i] = << ebackend, etexts[i] >>

\* three texts, two of them equal, were embedded in a batch of two and a
\* batch of one
C20_Witness ==
  /\ epc = "returned"
  /\ etexts = << 2, 1, 2 >> /\ ebatchSize = 2
  /\ ebatches = << << 2, 1 >>, << 2 >> >>
  /\ Len(eresult) = 3

(***************************************************************************)
(* Properties of LocalEmbeddingBackend, checked under LocalSpec.           *)
(***************************************************************************)

\* C21: embed applies the linear projection to the pooled vectors if and
\* only if the encoder's hidden size differs from TARGET_DIM; on an encoder
\* of hidden size TARGET_DIM nothing is projected, whatever projector the
\* constructor was given.
C21_ProjectsIffHiddenSizeDiffers ==
  lpc = "embedded"
    => \A i \in 1..Len(lresult) :
         lresult[i].projected <=> (lself.hidden_size # TARGET_DIM)

====
